---- MODULE Spec2Model ----
(***************************************************************************)
(* A model of zon (friedelschoen/zon): the evaluator's parallel resolve,  *)
(* the output materializer with its content-addressed store, the driver's *)
(* flag handling and orphan sweep, the worker pool and map extension.     *)
(***************************************************************************)
EXTENDS Integers, Sequences, FiniteSets, TLC

(* ------------------------------ bounds -------------------------------- *)

\* Number of sibling output forms in the root array of a run.
NumElems == 2
\* Number of distinct fingerprints (store names) the forms can hash to.
NumFP == 2

\* Largest worker count of the pool, nesting depth and fan-out of the arrays.
MaxWorkers == 2
MaxDepth == 2
MaxFanout == 2
\* Largest number of explicit entries and of with clauses of a map expression.
MaxEntries == 2
MaxExtends == 2

Elems == 1..NumElems
Fingerprints == 1..NumFP

\* What an output form's attribute set looks like to the materializer:
\*   "ok"        output: a script that creates $out and fills it
\*               (README: make PREFIX=$out install)
\*   "exit1"     output: a script that creates $out and then exits non-zero
\*   "malformed" no output and no builder, a non-string in args, or an attribute
\*               that encodeEnviron cannot encode
Kinds == {"ok", "exit1", "malformed"}

(* ------------------------------- state -------------------------------- *)

VARIABLES
    \* the driver (main) and the evaluator's configuration
    phase,      \* "flags" | "resolve" | "failed" | "swept" | "exit"
    Force,      \* ev.Force
    DryRun,     \* ev.DryRun
    Serial,     \* ev.Serial
    \* the expression: a root array of output forms
    exprs,      \* element -> fingerprint of its output form
    form,       \* fingerprint -> kind of the form's attribute set
    \* the filesystem store and the session registry
    store,      \* fingerprints with an entry at <cache>/<hashstr>
    Outputs,    \* ev.Outputs (as a set: only membership is read)
    \* one sub-reduction per element (a goroutine, or inline when Serial)
    pc,         \* element -> position in OutputExpr.Resolve
    seen,       \* element -> the value of ev.Outputs read by append
    result,     \* element -> "none" | "hit" | "built" | "error": what Resolve
                \* returned (the store path from the probe, the store path
                \* after a build, or an error)
    \* history
    store0,     \* the store when the run started
    sealed,     \* fingerprints some build of which has completed successfully
    runs,       \* fingerprint -> number of cmd.Run calls
    atReturn,   \* element -> whether an entry existed when it returned an error
    \* the worker pool (Evaluator.Start / Submit) resolving nested arrays
    numWorkers, \* num of Start(num)
    depth,      \* nesting depth of the arrays (the leaves are literals)
    fanout,     \* elements per array
    queue,      \* ev.queue: the work items sent and not yet received
    tpc,        \* thread -> "idle" | "submit" | "wait" | "finish" | "done" | "stopped"
    job,        \* thread -> the expression (a path from the root) it resolves
    nextChild,  \* thread -> the next element its parallelResolve submits
    pending,    \* array -> its parallelResolve's WaitGroup counter
    resolved,   \* the expressions whose setter has run
    \* the resolution of one map expression (MapExpr.Resolve)
    mEntries,   \* the resolved key/value pairs of obj.Exprs, in declared order
    mExtends,   \* the resolved values of obj.Extends, in textual order
    mres,       \* res.Values
    mnext,      \* index of the next with clause
    mphase,     \* "entries" | "extends" | "done" | "error" | "off"
    \* the fingerprint of an output's attribute expression (hashValue)
    hExpr,      \* obj.Attrs, the expression the fingerprint is computed of
    hSums,      \* the byte streams fed to the hash, one per computation so far
    hPerm,      \* the same map expression with its entries in another textual order
    hPermSum,   \* the byte stream of hPerm ("" before it is computed)
    hAlt,       \* a second expression: hExpr with the unchosen branch of its condition
                \* replaced, another array, or hExpr again under another scope
    hAltSum,    \* the byte stream of hAlt ("" before it is computed)
    hScopes,    \* what the scope binds x to: for hExpr, and for hAlt
    \* one call of parallelResolve(exprs, scope, ev)
    pExprs,     \* element -> what its Resolve returns: [val, err]
    pSerial,    \* ev.Serial
    pValues,    \* values
    pErrs,      \* errs: 0 is nil, k is the error returned by element k
    pMu,        \* mu: -1 unlocked, 0 held by the caller, k held by goroutine k
    pWg,        \* wg's counter
    pMain,      \* the caller: "start" | "spawn" | "wait" | "serial" | "join" | "done" | "off"
    pNext,      \* the caller's loop index
    pGo,        \* element -> "none" | "resolve" | "lock" | "write" | "done"
    pRet,       \* what parallelResolve returned: [values, err]
    \* the resolution of an expression with variables, defines, lambdas and calls
    sProg,      \* the expression handed to Resolve with the root scope
    sSerial,    \* ev.Serial
    sHeap,      \* the Scope maps allocated so far; a scope is named by its index
    sTh,        \* thread -> [st, expr, scope, stack, val]: the driver's Resolve (0)
                \* and the sub-reductions of an array's elements (1, 2, ...)
    sCalls,     \* history: for each call that bound a lambda's body, the scopes involved
    sUses,      \* history: number of references to a formal resolved so far
    sBuilt,     \* history: the output forms materialized so far
    \* one OutputExpr.Resolve, from its resolved attribute set on
    oAttrs,     \* attribute -> [t, v]: the resolved attribute set (result.values)
    oNoEval,    \* ev.NoEvalOutput
    oForce,     \* ev.Force
    oDry,       \* ev.DryRun
    oExit,      \* the exit status the script has when it is run
    oMkdirErr,  \* whether os.MkdirTemp fails
    oPc,        \* "name" | "probe" | "remove" | "select" | "args" | "builddir" |
                \* "environ" | "run" | "unwind" | "done" | "off"
    oHashstr,   \* hashstr, the store name ("" before it is computed)
    oOutputs,   \* ev.Outputs
    oStore,     \* whether the store has an entry at outdir
    oCmdline,   \* cmdline
    oBuilddir,  \* builddir: "" | "tmp" | "src"
    oTmp,       \* the temporary directory: "none" | "exists" | "removed"
    oSrc,       \* the directory named by source: "exists" | "removed"
    oDefers,    \* the deferred functions registered so far, in order
    oFlags,     \* [success, deletebuilddir]
    oRan,       \* history: the processes run, each as [cmdline, dir]
    oRet,       \* what Resolve returns: "none" | "path" | an error | "panic"
    lVal,       \* res, the value the program resolved to
    lJson,      \* jsonOutput
    lNoResult,  \* noResult
    lResultName,\* resultName
    lFs0,       \* history: the directory entries before the projection
    lFs,        \* the directory entries by name: [t, to]
    lPc,        \* "flags" | "project" | "elems" | "exit" | "done" | "off"
    lNext,      \* ArrayValue.Link: the index of the next element
    lErrs,      \* ArrayValue.Link: errs
    lLinked,    \* history: the PathExpr.Link calls made, each as [name, to, err]
    lExit,      \* the exit status (-1 while main runs)
    tArr0,      \* history: the array as the parser built it
    tArr,       \* the array x is bound to ([]any), one object shared by every reference
    tY,         \* for each reference to x, what y is bound to in its scope
    tSerial,    \* ev.Serial
    tElem,      \* for each reference, the elements its range loop has read so far
    tWritten,   \* for each reference, the indices it has stored a result at
    tDone,      \* for each reference, whether its resolve has returned (the array itself)
    rContent,   \* RingBuffer.Content
    rIndex,     \* RingBuffer.Index
    rSize,      \* RingBuffer.Size
    rWritten,   \* history: every byte written, in order
    rGot        \* the last Get: [done, bytes, after: the number of bytes written before it]

cfgVars == <<Force, DryRun, Serial>>
exprVars == <<exprs, form>>
histVars == <<store0, sealed, runs, atReturn>>
matVars == <<phase, cfgVars, exprVars, store, Outputs, pc, seen, result, histVars>>
poolVars == <<numWorkers, depth, fanout, queue, tpc, job, nextChild, pending, resolved>>
mapVars == <<mEntries, mExtends, mres, mnext, mphase>>
hashVars == <<hExpr, hSums, hPerm, hPermSum, hAlt, hAltSum, hScopes>>
parVars == <<pExprs, pSerial, pValues, pErrs, pMu, pWg, pMain, pNext, pGo, pRet>>
scopeVars == <<sProg, sSerial, sHeap, sTh, sCalls, sUses, sBuilt>>
outVars == <<oAttrs, oNoEval, oForce, oDry, oExit, oMkdirErr, oPc, oHashstr, oOutputs, oStore,
             oCmdline, oBuilddir, oTmp, oSrc, oDefers, oFlags, oRan, oRet>>
linkVars == <<lVal, lJson, lNoResult, lResultName, lFs0, lFs, lPc, lNext, lErrs, lLinked, lExit>>
treeVars == <<tArr0, tArr, tY, tSerial, tElem, tWritten, tDone>>
ringVars == <<rContent, rIndex, rSize, rWritten, rGot>>
vars == <<matVars, poolVars, mapVars, hashVars, parVars, scopeVars, outVars, linkVars, treeVars, ringVars>>

\* What the steps of one part of the program leave alone: the other parts.
notMatVars == <<poolVars, mapVars, hashVars, parVars, scopeVars, outVars, linkVars, treeVars, ringVars>>
notPoolVars == <<matVars, mapVars, hashVars, parVars, scopeVars, outVars, linkVars, treeVars, ringVars>>
notMapVars == <<matVars, poolVars, hashVars, parVars, scopeVars, outVars, linkVars, treeVars, ringVars>>
notHashVars == <<matVars, poolVars, mapVars, parVars, scopeVars, outVars, linkVars, treeVars, ringVars>>
notParVars == <<matVars, poolVars, mapVars, hashVars, scopeVars, outVars, linkVars, treeVars, ringVars>>
notOutVars == <<matVars, poolVars, mapVars, hashVars, parVars, scopeVars, linkVars, treeVars, ringVars>>
notLinkVars == <<matVars, poolVars, mapVars, hashVars, parVars, scopeVars, outVars, treeVars, ringVars>>
notTreeVars == <<matVars, poolVars, mapVars, hashVars, parVars, scopeVars, outVars, linkVars, ringVars>>
notRingVars == <<matVars, poolVars, mapVars, hashVars, parVars, scopeVars, outVars, linkVars, treeVars>>
notScopeVars == <<matVars, poolVars, mapVars, hashVars, parVars, outVars, linkVars, treeVars, ringVars>>

(* --------------------------- the materializer ------------------------- *)

\* main: "if ev.DryRun && ev.Force { ev.Force = false }"
NormalForce(force, dry) == IF dry /\ force THEN FALSE ELSE force

\* Mutants of the probe: one that never looks at the store, one that never
\* looks at force.
ProbeHit_NoStat(dry, force, exists) == dry /\ ~force
ProbeHit_IgnoresForce(dry, force, exists) == dry \/ exists

\* OutputExpr.Resolve, the cache probe:
\* "if _, err := os.Stat(outdir); (ev.DryRun || err == nil) && !ev.Force"
ProbeHit(dry, force, exists) == (dry \/ exists) /\ ~force

\* Script selection, args, and environment encoding: whether one of them returns
\* an error.
PrepareFails(kind) == kind = "malformed"

\* The exit of the script (sh -e -c): it fails when its $out was removed under it
\* or when its last command fails.
ScriptFails(kind, outExists) == kind = "exit1" \/ ~outExists

\* Serial mode resolves the elements inline, one after the other; parallel mode
\* starts one goroutine per element.
MayStart(i) ==
    /\ phase = "resolve"
    /\ pc[i] = "idle"
    /\ Serial => \A j \in Elems : j < i => pc[j] = "done"

(* ------------------------------ the pool ------------------------------ *)

Threads == 0..MaxWorkers
Main == 0
Workers == 1..numWorkers

\* An expression of the tree is the path of element indices leading to it; the
\* root array is <<>>, an expression at the nesting depth is a literal.
RECURSIVE PathsOfLen(_)
PathsOfLen(n) ==
    IF n = 0 THEN {<<>>}
    ELSE {Append(p, k) : p \in PathsOfLen(n - 1), k \in 1..MaxFanout}
RECURSIVE PathsUpTo(_)
PathsUpTo(n) == IF n = 0 THEN PathsOfLen(0) ELSE PathsOfLen(n) \cup PathsUpTo(n - 1)
Nodes == PathsUpTo(MaxDepth)

IsArray(n) == Len(n) < depth
Parent(n) == SubSeq(n, 1, Len(n) - 1)

\* The pool at rest, for the specifications that do not use it.
PoolOff ==
    /\ numWorkers = 0 /\ depth = 0 /\ fanout = 0
    /\ queue = <<>>
    /\ tpc = [t \in Threads |-> "stopped"]
    /\ job = [t \in Threads |-> <<>>]
    /\ nextChild = [t \in Threads |-> 0]
    /\ pending = [n \in Nodes |-> 0]
    /\ resolved = {}

\* The map resolution at rest, for the specifications that do not use it.
MapOff ==
    /\ mEntries = <<>> /\ mExtends = <<>>
    /\ mres = <<>> /\ mnext = 0 /\ mphase = "off"

\* The fingerprint computation at rest, for the specifications that do not use it.
HashOff ==
    /\ hExpr = <<>> /\ hSums = <<>> /\ hPerm = <<>> /\ hPermSum = ""
    /\ hAlt = <<>> /\ hAltSum = "" /\ hScopes = <<>>

\* parallelResolve at rest, for the specifications that do not use it.
ParOff ==
    /\ pExprs = <<>> /\ pSerial = FALSE
    /\ pValues = <<>> /\ pErrs = <<>>
    /\ pMu = -1 /\ pWg = 0
    /\ pMain = "off" /\ pNext = 0
    /\ pGo = <<>>
    /\ pRet = <<>>

\* The resolution of variables at rest, for the specifications that do not use it.
ScopeOff ==
    /\ sProg = <<>> /\ sSerial = FALSE
    /\ sHeap = <<>> /\ sTh = <<>>
    /\ sCalls = {} /\ sUses = 0 /\ sBuilt = {}

\* A single OutputExpr.Resolve at rest, for the specifications that do not use it.
OutOff ==
    /\ oAttrs = <<>> /\ oNoEval = FALSE /\ oForce = FALSE /\ oDry = FALSE /\ oExit = 0 /\ oMkdirErr = FALSE
    /\ oPc = "off" /\ oHashstr = "" /\ oOutputs = <<>> /\ oStore = FALSE
    /\ oCmdline = <<>> /\ oBuilddir = "" /\ oTmp = "none" /\ oSrc = "exists"
    /\ oDefers = <<>> /\ oFlags = <<>> /\ oRan = <<>> /\ oRet = "none"

\* The projection of the result at rest, for the specifications that do not use it.
LinkOff ==
    /\ lVal = <<>> /\ lJson = FALSE /\ lNoResult = FALSE /\ lResultName = ""
    /\ lFs0 = <<>> /\ lFs = <<>> /\ lPc = "off" /\ lNext = 0
    /\ lErrs = <<>> /\ lLinked = <<>> /\ lExit = -1

\* The in-place resolve at rest, for the specifications that do not use it.
TreeOff ==
    /\ tArr0 = <<>> /\ tArr = <<>> /\ tY = <<>> /\ tSerial = FALSE
    /\ tElem = <<>> /\ tWritten = <<>> /\ tDone = <<>>

\* The ring buffer at rest, for the specifications that do not use it.
RingOff ==
    /\ rContent = <<>> /\ rIndex = 0 /\ rSize = 0 /\ rWritten = <<>>
    /\ rGot = [done |-> FALSE, bytes |-> <<>>, after |-> 0]

\* The materializer at rest, for the specifications that do not use it.
MatOff ==
    /\ phase = "off"
    /\ Force = FALSE /\ DryRun = FALSE /\ Serial = FALSE
    /\ exprs = [i \in Elems |-> 1]
    /\ form = [f \in Fingerprints |-> "ok"]
    /\ store = {} /\ Outputs = {}
    /\ pc = [i \in Elems |-> "done"]
    /\ seen = [i \in Elems |-> {}]
    /\ result = [i \in Elems |-> "none"]
    /\ store0 = {} /\ sealed = {}
    /\ runs = [f \in Fingerprints |-> 0]
    /\ atReturn = [i \in Elems |-> FALSE]

\* Start(num) and the driver about to resolve the root array.
PoolInit ==
    /\ MatOff
    /\ MapOff
    /\ HashOff
    /\ ParOff
    /\ ScopeOff
    /\ OutOff
    /\ LinkOff
    /\ TreeOff
    /\ RingOff
    /\ numWorkers \in 1..MaxWorkers
    /\ depth \in 1..MaxDepth
    /\ fanout \in 1..MaxFanout
    /\ queue = <<>>
    /\ tpc = [t \in Threads |-> IF t <= numWorkers THEN "idle" ELSE "stopped"]
    /\ job = [t \in Threads |-> <<>>]
    /\ nextChild = [t \in Threads |-> 0]
    /\ pending = [n \in Nodes |-> 0]
    /\ resolved = {}

\* The driver calls Resolve on the root array: parallelResolve starts its loop.
PoolResolveRoot ==
    /\ tpc[Main] = "idle"
    /\ tpc' = [tpc EXCEPT ![Main] = "submit"]
    /\ nextChild' = [nextChild EXCEPT ![Main] = 1]
    /\ UNCHANGED <<numWorkers, depth, fanout, queue, job, pending, resolved>>
    /\ UNCHANGED notPoolVars

\* One turn of parallelResolve's loop: wg.Add(1) and ev.Submit, whose send
\* "ev.queue <- item" blocks while the channel holds num items.
PoolSubmit(t) ==
    /\ tpc[t] = "submit"
    /\ Len(queue) < numWorkers
    /\ pending' = [pending EXCEPT ![job[t]] = @ + 1]
    /\ queue' = Append(queue, Append(job[t], nextChild[t]))
    /\ nextChild' = [nextChild EXCEPT ![t] = @ + 1]
    /\ tpc' = [tpc EXCEPT ![t] = IF nextChild[t] = fanout THEN "wait" ELSE "submit"]
    /\ UNCHANGED <<numWorkers, depth, fanout, job, resolved>>
    /\ UNCHANGED notPoolVars

\* A worker receives an item ("for job := range ev.queue") and calls its Resolve:
\* an array starts its own parallelResolve, a literal returns at once.
PoolTake(w) ==
    /\ w \in Workers
    /\ tpc[w] = "idle"
    /\ queue # <<>>
    /\ job' = [job EXCEPT ![w] = Head(queue)]
    /\ queue' = Tail(queue)
    /\ IF IsArray(Head(queue))
       THEN /\ tpc' = [tpc EXCEPT ![w] = "submit"]
            /\ nextChild' = [nextChild EXCEPT ![w] = 1]
       ELSE /\ tpc' = [tpc EXCEPT ![w] = "finish"]
            /\ UNCHANGED nextChild
    /\ UNCHANGED <<numWorkers, depth, fanout, pending, resolved>>
    /\ UNCHANGED notPoolVars

\* wg.Wait() returns once every submitted element has called wg.Done().
PoolWait(t) ==
    /\ tpc[t] = "wait"
    /\ pending[job[t]] = 0
    /\ tpc' = [tpc EXCEPT ![t] = IF t = Main THEN "done" ELSE "finish"]
    /\ UNCHANGED <<numWorkers, depth, fanout, queue, job, nextChild, pending, resolved>>
    /\ UNCHANGED notPoolVars

\* The worker calls the item's setter: the value is stored and wg.Done() called.
PoolFinish(w) ==
    /\ w \in Workers
    /\ tpc[w] = "finish"
    /\ resolved' = resolved \cup {job[w]}
    /\ pending' = [pending EXCEPT ![Parent(job[w])] = @ - 1]
    /\ tpc' = [tpc EXCEPT ![w] = "idle"]
    /\ UNCHANGED <<numWorkers, depth, fanout, queue, job, nextChild>>
    /\ UNCHANGED notPoolVars

\* Stop(): close(ev.queue); the idle workers leave their loops.
PoolStop ==
    /\ tpc[Main] = "done"
    /\ \A w \in Workers : tpc[w] = "idle"
    /\ tpc' = [t \in Threads |-> "stopped"]
    /\ UNCHANGED <<numWorkers, depth, fanout, queue, job, nextChild, pending, resolved>>
    /\ UNCHANGED notPoolVars

PoolNext ==
    \/ PoolResolveRoot
    \/ \E t \in Threads : PoolSubmit(t)
    \/ \E w \in Threads : PoolTake(w)
    \/ \E t \in Threads : PoolWait(t)
    \/ \E w \in Threads : PoolFinish(w)
    \/ PoolStop

SpecPool == PoolInit /\ [][PoolNext]_vars

\* Every worker is blocked: in wg.Wait() for elements not yet done, or in the
\* send of Submit on a full channel.
PoolStarved ==
    \A w \in Workers :
        \/ tpc[w] = "wait" /\ pending[job[w]] > 0
        \/ tpc[w] = "submit" /\ Len(queue) = numWorkers

(* ------------------------- map expressions ---------------------------- *)

Keys == {"a", "b"}
Vals == {1, 2}

\* A MapValue's Values: a function from some keys to values.
MapValues == UNION {[D -> Vals] : D \in SUBSET Keys}

\* A resolved key/value pair of obj.Exprs; strKey: the key resolved to a StringValue.
Entries == [key : Keys, val : Vals, strKey : BOOLEAN]

\* The resolved value of a with clause: a MapValue, or something else.
ExtendValues ==
    [isMap : {TRUE}, values : MapValues] \cup {[isMap |-> FALSE, values |-> <<>>]}

SeqsUpTo(S, n) == UNION {[1..k -> S] : k \in 0..n}

\* Go's maps.Copy(dst, src): every pair of src is stored into dst.
MapsCopy(dst, src) ==
    [k \in (DOMAIN dst) \cup (DOMAIN src) |-> IF k \in DOMAIN src THEN src[k] ELSE dst[k]]

\* The old evaluator's copyMapKeep(dest, source): only the keys dest lacks.
copyMapKeep(dest, source) ==
    [k \in (DOMAIN dest) \cup (DOMAIN source) |-> IF k \in DOMAIN dest THEN dest[k] ELSE source[k]]

\* "res.Values[keyStr.Content] = value" over the first n pairs, in declared order.
RECURSIVE PairUp(_, _)
PairUp(entries, n) ==
    IF n = 0 THEN <<>>
    ELSE LET prev == PairUp(entries, n - 1)
         IN  [k \in (DOMAIN prev) \cup {entries[n].key} |->
                 IF k = entries[n].key THEN entries[n].val ELSE prev[k]]

MapInit ==
    /\ MatOff
    /\ PoolOff
    /\ HashOff
    /\ ParOff
    /\ ScopeOff
    /\ OutOff
    /\ LinkOff
    /\ TreeOff
    /\ RingOff
    /\ mEntries \in SeqsUpTo(Entries, MaxEntries)
    /\ mExtends \in SeqsUpTo(ExtendValues, MaxExtends)
    /\ mres = <<>>
    /\ mnext = 1
    /\ mphase = "entries"

\* MapExpr.Resolve up to the with clauses: the entries are resolved and paired;
\* a key that is no string is an error.
MapPairEntries ==
    /\ mphase = "entries"
    /\ IF \E n \in 1..Len(mEntries) : ~mEntries[n].strKey
       THEN /\ mphase' = "error"
            /\ UNCHANGED mres
       ELSE /\ mphase' = "extends"
            /\ mres' = PairUp(mEntries, Len(mEntries))
    /\ UNCHANGED <<mEntries, mExtends, mnext>>
    /\ UNCHANGED notMapVars

\* One turn of "for _, extname := range obj.Extends".
MapExtend ==
    /\ mphase = "extends"
    /\ mnext <= Len(mExtends)
    /\ IF mExtends[mnext].isMap
       THEN /\ mres' = MapsCopy(mres, mExtends[mnext].values)
            /\ mnext' = mnext + 1
            /\ UNCHANGED mphase
       ELSE /\ mphase' = "error"
            /\ UNCHANGED <<mres, mnext>>
    /\ UNCHANGED <<mEntries, mExtends>>
    /\ UNCHANGED notMapVars

\* "return res, deps, nil"
MapReturn ==
    /\ mphase = "extends"
    /\ mnext > Len(mExtends)
    /\ mphase' = "done"
    /\ UNCHANGED <<mEntries, mExtends, mres, mnext>>
    /\ UNCHANGED notMapVars

MapNext == MapPairEntries \/ MapExtend \/ MapReturn

SpecMap == MapInit /\ [][MapNext]_vars

\* The keys set by the explicit entries, and the value the entries give a key.
ExplicitKeys == {mEntries[n].key : n \in 1..Len(mEntries)}
ExplicitValue(k) == PairUp(mEntries, Len(mEntries))[k]
\* The with clauses that hold key k, by index.
ClausesWith(k) == {j \in 1..Len(mExtends) : mExtends[j].isMap /\ k \in DOMAIN mExtends[j].values}
FirstClauseWith(k) == CHOOSE j \in ClausesWith(k) : \A i \in ClausesWith(k) : j <= i

(* ------------------------- the materializer run ------------------------ *)

\* Fingerprints are opaque names: the forms of the array are numbered in the
\* order of their first occurrence (every other array is a renaming of such a one).
FirstOccurrenceOrder(e) ==
    \A i \in Elems : \A f \in 1..(e[i] - 1) : \E j \in 1..(i - 1) : e[j] = f

\* A fingerprint no form of the array hashes to names at most an orphan entry of
\* the store: there is no attribute set behind it, so its kind is left at "ok".
FormsOfExprs(e, kinds) ==
    \A f \in Fingerprints : (\A i \in Elems : e[i] # f) => kinds[f] = "ok"

Init ==
    /\ phase = "flags"
    /\ Force \in BOOLEAN
    /\ DryRun \in BOOLEAN
    /\ Serial \in BOOLEAN
    /\ exprs \in {e \in [Elems -> Fingerprints] : FirstOccurrenceOrder(e)}
    /\ form \in {k \in [Fingerprints -> Kinds] : FormsOfExprs(exprs, k)}
    /\ store \in SUBSET Fingerprints
    /\ Outputs = {}
    /\ pc = [i \in Elems |-> "idle"]
    /\ seen = [i \in Elems |-> {}]
    /\ result = [i \in Elems |-> "none"]
    /\ store0 = store
    /\ sealed = store
    /\ runs = [f \in Fingerprints |-> 0]
    /\ atReturn = [i \in Elems |-> FALSE]
    /\ PoolOff
    /\ MapOff
    /\ HashOff
    /\ ParOff
    /\ ScopeOff
    /\ OutOff
    /\ LinkOff
    /\ TreeOff
    /\ RingOff

\* main, up to ast.Resolve.
ParseFlags ==
    /\ phase = "flags"
    /\ Force' = NormalForce(Force, DryRun)
    /\ phase' = "resolve"
    /\ UNCHANGED notMatVars
    /\ UNCHANGED <<DryRun, Serial, exprVars, store, Outputs, pc, seen,
                   result, histVars>>

\* Resolve up to the read of ev.Outputs in "ev.Outputs = append(ev.Outputs, hashstr)".
Begin(i) ==
    /\ MayStart(i)
    /\ seen' = [seen EXCEPT ![i] = Outputs]
    /\ pc' = [pc EXCEPT ![i] = "append"]
    /\ UNCHANGED notMatVars
    /\ UNCHANGED <<phase, cfgVars, exprVars, store, Outputs, result, histVars>>

\* The write of ev.Outputs: unsynchronized, so it stores what this goroutine read.
Register(i) ==
    /\ pc[i] = "append"
    /\ Outputs' = seen[i] \cup {exprs[i]}
    /\ seen' = [seen EXCEPT ![i] = {}]
    /\ pc' = [pc EXCEPT ![i] = "probe"]
    /\ UNCHANGED notMatVars
    /\ UNCHANGED <<phase, cfgVars, exprVars, store, result, histVars>>

\* os.Stat(outdir) and the early return.
Probe(i) ==
    /\ pc[i] = "probe"
    /\ IF ProbeHit(DryRun, Force, exprs[i] \in store)
       THEN /\ result' = [result EXCEPT ![i] = "hit"]
            /\ pc' = [pc EXCEPT ![i] = "done"]
       ELSE /\ pc' = [pc EXCEPT ![i] = "remove"]
            /\ UNCHANGED result
    /\ UNCHANGED notMatVars
    /\ UNCHANGED <<phase, cfgVars, exprVars, store, Outputs, seen, histVars>>

\* os.RemoveAll(outdir), the deferred cleanup armed, then script selection, args,
\* working directory and environment, and the start of the child process.
Remove(i) ==
    /\ pc[i] = "remove"
    /\ store' = store \ {exprs[i]}
    /\ IF PrepareFails(form[exprs[i]])
       THEN /\ pc' = [pc EXCEPT ![i] = "cleanup"]
            /\ UNCHANGED runs
       ELSE /\ pc' = [pc EXCEPT ![i] = "run"]
            /\ runs' = [runs EXCEPT ![exprs[i]] = @ + 1]
    /\ UNCHANGED notMatVars
    /\ UNCHANGED <<phase, cfgVars, exprVars, Outputs, seen, result,
                   store0, sealed, atReturn>>

\* The script creates its $out, which is the candidate path itself.
ScriptMkdir(i) ==
    /\ pc[i] = "run"
    /\ store' = store \cup {exprs[i]}
    /\ pc' = [pc EXCEPT ![i] = "write"]
    /\ UNCHANGED notMatVars
    /\ UNCHANGED <<phase, cfgVars, exprVars, Outputs, seen, result, histVars>>

\* The script writes into $out and exits; cmd.Run returns; on success Resolve
\* sets success and returns the path.
ScriptExit(i) ==
    /\ pc[i] = "write"
    /\ IF ScriptFails(form[exprs[i]], exprs[i] \in store)
       THEN /\ pc' = [pc EXCEPT ![i] = "cleanup"]
            /\ UNCHANGED <<result, sealed>>
       ELSE /\ pc' = [pc EXCEPT ![i] = "done"]
            /\ result' = [result EXCEPT ![i] = "built"]
            /\ sealed' = sealed \cup {exprs[i]}
    /\ UNCHANGED notMatVars
    /\ UNCHANGED <<phase, cfgVars, exprVars, store, Outputs, seen,
                   store0, runs, atReturn>>

\* The deferred "if !success { os.RemoveAll(outdir) }".
Cleanup(i) ==
    /\ pc[i] = "cleanup"
    /\ store' = store \ {exprs[i]}
    /\ pc' = [pc EXCEPT ![i] = "return"]
    /\ UNCHANGED notMatVars
    /\ UNCHANGED <<phase, cfgVars, exprVars, Outputs, seen, result, histVars>>

\* Resolve hands its error to the caller.
ReturnError(i) ==
    /\ pc[i] = "return"
    /\ result' = [result EXCEPT ![i] = "error"]
    /\ atReturn' = [atReturn EXCEPT ![i] = exprs[i] \in store]
    /\ pc' = [pc EXCEPT ![i] = "done"]
    /\ UNCHANGED notMatVars
    /\ UNCHANGED <<phase, cfgVars, exprVars, store, Outputs, seen,
                   store0, sealed, runs>>

AllDone == \A i \in Elems : pc[i] = "done"
Failed == \E i \in Elems : result[i] = "error"

\* main after ast.Resolve: print the error and exit(1).
ExitError ==
    /\ phase = "resolve"
    /\ AllDone
    /\ Failed
    /\ phase' = "failed"
    /\ UNCHANGED notMatVars
    /\ UNCHANGED <<cfgVars, exprVars, store, Outputs, pc, seen, result, histVars>>

\* main after ast.Resolve, with --clean:
\* "if cleanup { ... os.RemoveAll of every entry not in ev.Outputs }".
Sweep ==
    /\ phase = "resolve"
    /\ AllDone
    /\ ~Failed
    /\ store' = store \cap Outputs
    /\ phase' = "swept"
    /\ UNCHANGED notMatVars
    /\ UNCHANGED <<cfgVars, exprVars, Outputs, pc, seen, result, histVars>>

\* main after ast.Resolve, without --clean.
Exit ==
    /\ phase = "resolve"
    /\ AllDone
    /\ ~Failed
    /\ phase' = "exit"
    /\ UNCHANGED notMatVars
    /\ UNCHANGED <<cfgVars, exprVars, store, Outputs, pc, seen, result, histVars>>

Next ==
    \/ ParseFlags
    \/ \E i \in Elems : Begin(i)
    \/ \E i \in Elems : Register(i)
    \/ \E i \in Elems : Probe(i)
    \/ \E i \in Elems : Remove(i)
    \/ \E i \in Elems : ScriptMkdir(i)
    \/ \E i \in Elems : ScriptExit(i)
    \/ \E i \in Elems : Cleanup(i)
    \/ \E i \in Elems : ReturnError(i)
    \/ ExitError
    \/ Sweep
    \/ Exit

Spec == Init /\ [][Next]_vars

TypeOK ==
    /\ phase \in {"flags", "resolve", "failed", "swept", "exit", "off"}
    /\ store \subseteq Fingerprints
    /\ Outputs \subseteq Fingerprints
    /\ \A i \in Elems : result[i] \in {"none", "hit", "built", "error"}

(* ----------------- serial resolution, as a function ------------------- *)

\* One OutputExpr.Resolve run inline against store st: <<failed, store after>>.
ResolveInline(f, st, force, dry, kinds) ==
    IF ProbeHit(dry, force, f \in st) THEN <<FALSE, st>>
    ELSE IF PrepareFails(kinds[f]) THEN <<TRUE, st \ {f}>>
    ELSE IF ScriptFails(kinds[f], TRUE) THEN <<TRUE, st \ {f}>>
    ELSE <<FALSE, st \cup {f}>>

\* parallelResolve's serial branch over the first k elements:
\* <<errs (the elements that failed), store after>>.
RECURSIVE SerialResolve(_, _, _, _, _, _)
SerialResolve(k, e, st, force, dry, kinds) ==
    IF k = 0 THEN <<{}, st>>
    ELSE LET prev == SerialResolve(k - 1, e, st, force, dry, kinds)
             this == ResolveInline(e[k], prev[2], force, dry, kinds)
         IN  <<IF this[1] THEN prev[1] \cup {k} ELSE prev[1], this[2]>>

\* errors.Join(errs...) # nil in serial mode, for the run's expression and store.
SerialFailed ==
    SerialResolve(NumElems, exprs, store0, NormalForce(Force, DryRun), DryRun, form)[1] # {}

\* The serial branch of the run agrees with the function above.
SerialModeIsSerialResolve ==
    (Serial /\ phase \in {"failed", "swept", "exit"}) =>
        LET r == SerialResolve(NumElems, exprs, store0, Force, DryRun, form)
        IN  /\ r[1] = {i \in Elems : result[i] = "error"}
            /\ (phase # "swept" => r[2] = store)

(* --------------------------- fingerprints ----------------------------- *)

\* Largest number of key/value entries of a hashed map expression, of bindings
\* of a hashed define, and the number of times one fingerprint is computed.
MaxHashEntries == 2
MaxBindings == 2
NumHashRuns == 2
MaxHashElems == 2

\* An expression, as far as hashValue reads it: its type, its text (a literal's
\* content, a variable's name), the names it binds (DefineExpr.Define's keys),
\* its with clauses (MapExpr.Extends) and its sub-expressions (MapExpr.Exprs: key,
\* value, key, value, ...; DefineExpr: the bound expressions, then Expr).
HExpr(kind, text, names, exts, subs) ==
    [kind |-> kind, text |-> text, names |-> names, exts |-> exts, subs |-> subs]
HNumber(t) == HExpr("number", t, <<>>, <<>>, <<>>)
HString(t) == HExpr("string", t, <<>>, <<>>, <<>>)
HVar(n) == HExpr("var", n, <<>>, <<>>, <<>>)

BindingNames == <<"x", "y", "z", "w">>
HashLeaves == {HNumber("1"), HNumber("2"), HString("a"), HVar("x")}
HashKeys == {HString("a"), HString("b")}

\* Map expressions: up to MaxHashEntries entries with literal keys, at most one
\* with clause.
HashEntryLists == UNION {[1..k -> HashKeys \X HashLeaves] : k \in 0..MaxHashEntries}
Flatten(pairs) ==
    [i \in 1..(2 * Len(pairs)) |-> IF i % 2 = 1 THEN pairs[(i + 1) \div 2][1] ELSE pairs[i \div 2][2]]
HashMaps ==
    {HExpr("map", "", <<>>, exts, Flatten(pairs)) :
        exts \in {<<>>, <<HVar("base")>>}, pairs \in HashEntryLists}

\* Define expressions: k bindings (a Go map from name to expression) and a body.
HashDefines ==
    UNION {{HExpr("define", "", SubSeq(BindingNames, 1, k), <<>>, Append(bound, body)) :
               bound \in [1..k -> HashLeaves], body \in HashLeaves} : k \in 0..MaxBindings}

\* Attribute sets with one entry whose value is a condition with a literal
\* predicate (0 is false, 1 is true) and two branches.
HCond(cond, truly, falsy) == HExpr("condition", "", <<>>, <<>>, <<cond, truly, falsy>>)
HashCondMaps ==
    {HExpr("map", "", <<>>, <<>>, <<HString("a"), HCond(c, a, b)>>) :
        c \in {HNumber("0"), HNumber("1")}, a \in HashLeaves, b \in HashLeaves}

\* Arrays of up to MaxHashElems elements: strings, and arrays of strings.
HArray(elems) == HExpr("array", "", <<>>, <<>>, elems)
HashArrayElems ==
    {HString("a"), HString("b"), HArray(<<HString("a")>>),
     HArray(<<HString("a"), HString("b")>>)}
HashArrays == {HArray(es) : es \in SeqsUpTo(HashArrayElems, MaxHashElems)}

\* Whether a value of map expression e is a reference to the variable n, and
\* the strings n is bound to (StringConstant, for a binding from the command line).
RefersTo(e, n) ==
    e.kind = "map" /\ \E i \in 1..Len(e.subs) : i % 2 = 0 /\ e.subs[i] = HVar(n)
ScopeValues == {"1", "2"}

HashExprs == HashLeaves \cup HashMaps \cup HashDefines \cup HashCondMaps \cup HashArrays

\* The orders in which "for k, v := range obj.Define" can visit k bindings: Go
\* leaves the iteration order of a map unspecified, and it varies between loops.
RangeOrders(k) == Permutations(1..k)

\* The byte streams hashValue can write for expression e.  Every hashValue but
\* DefineExpr's writes one stream; DefineExpr's writes one per iteration order.
RECURSIVE HashStreams(_)
RECURSIVE HashSeq(_)
RECURSIVE HashBindings(_, _, _)
HashSeq(es) ==
    IF es = <<>> THEN {""}
    ELSE {h \o t : h \in HashStreams(Head(es)), t \in HashSeq(Tail(es))}
\* The bindings of define e visited in order ord, from its i-th turn on.
HashBindings(e, ord, i) ==
    IF i > Len(e.names) THEN {""}
    ELSE {e.names[ord[i]] \o h \o t :
             h \in HashStreams(e.subs[ord[i]]), t \in HashBindings(e, ord, i + 1)}
HashStreams(e) ==
    CASE e.kind = "number" -> {"number" \o e.text}
      [] e.kind = "string" -> {"string" \o e.text}
      [] e.kind = "var" -> {"var" \o e.text}
      [] e.kind = "map" -> {"map" \o x \o s : x \in HashSeq(e.exts), s \in HashSeq(e.subs)}
      [] e.kind = "condition" -> {"condition" \o s : s \in HashSeq(e.subs)}
      [] e.kind = "array" -> {"array" \o s : s \in HashSeq(e.subs)}
      [] e.kind = "define" ->
            UNION {{"define" \o b \o s :
                       b \in HashBindings(e, ord, 1),
                       s \in HashStreams(e.subs[Len(e.subs)])} :
                   ord \in RangeOrders(Len(e.names))}

\* Map expression e with its key/value entries in the textual order ord.
PermuteEntries(e, ord) ==
    [e EXCEPT !.subs = [i \in 1..Len(e.subs) |->
        IF i % 2 = 1 THEN e.subs[2 * ord[(i + 1) \div 2] - 1] ELSE e.subs[2 * ord[i \div 2]]]]

\* Whether the entries of map expression e have pairwise different keys.
DistinctKeys(e) ==
    \A i, j \in 1..(Len(e.subs) \div 2) : e.subs[2 * i - 1] = e.subs[2 * j - 1] => i = j

HashInit ==
    /\ MatOff
    /\ PoolOff
    /\ MapOff
    /\ ParOff
    /\ ScopeOff
    /\ OutOff
    /\ LinkOff
    /\ TreeOff
    /\ RingOff
    /\ hExpr \in HashExprs
    /\ hSums = <<>>
    /\ hPerm = hExpr
    /\ hPermSum = ""
    /\ hAlt = hExpr
    /\ hAltSum = ""
    /\ hScopes \in (IF RefersTo(hExpr, "x") THEN [1..2 -> ScopeValues] ELSE {<<"1", "1">>})

\* OutputExpr.Resolve computes the fingerprint: "obj.Attrs.hashValue(hashlib)".
HashFingerprint ==
    /\ hExpr # <<>>
    /\ Len(hSums) < NumHashRuns
    /\ \E s \in HashStreams(hExpr) : hSums' = Append(hSums, s)
    /\ UNCHANGED <<hExpr, hPerm, hPermSum, hAlt, hAltSum, hScopes>>
    /\ UNCHANGED notHashVars

\* The fingerprint of the same map written with its entries in another order.
HashPermuted ==
    /\ hExpr # <<>>
    /\ hExpr.kind = "map"
    /\ hPermSum = ""
    /\ \E ord \in Permutations(1..(Len(hExpr.subs) \div 2)) :
          /\ hPerm' = PermuteEntries(hExpr, ord)
          /\ hPermSum' \in HashStreams(PermuteEntries(hExpr, ord))
    /\ UNCHANGED <<hExpr, hSums, hAlt, hAltSum, hScopes>>
    /\ UNCHANGED notHashVars

\* The index, among the sub-expressions of a condition with a literal
\* predicate, of the branch ConditionExpr.Resolve does not choose.
UnchosenBranch(cond) == IF cond.subs[1].text # "0" THEN 3 ELSE 2

\* The fingerprint of the same attribute set with the branch its condition does
\* not choose replaced by another expression.
HashReplaced ==
    /\ hExpr \in HashCondMaps
    /\ hAltSum = ""
    /\ LET cond == hExpr.subs[2]
           k == UnchosenBranch(cond)
       IN  \E r \in HashLeaves \ {cond.subs[k]} :
              /\ hAlt' = [hExpr EXCEPT !.subs[2].subs[k] = r]
              /\ hAltSum' \in HashStreams([hExpr EXCEPT !.subs[2].subs[k] = r])
    /\ UNCHANGED <<hExpr, hSums, hPerm, hPermSum, hScopes>>
    /\ UNCHANGED notHashVars

\* The fingerprint of another array.
HashRegrouped ==
    /\ hExpr \in HashArrays
    /\ hAltSum = ""
    /\ \E r \in HashArrays \ {hExpr} :
          /\ hAlt' = r
          /\ hAltSum' \in HashStreams(r)
    /\ UNCHANGED <<hExpr, hSums, hPerm, hPermSum, hScopes>>
    /\ UNCHANGED notHashVars

\* The fingerprint of the same attribute set where the scope binds x to
\* something else (another "let x = ...", another x=... on the command line):
\* hashValue is handed the writer only, so it is the same computation.
HashRebound ==
    /\ hExpr \in HashMaps
    /\ RefersTo(hExpr, "x")
    /\ hScopes[1] # hScopes[2]
    /\ hAltSum = ""
    /\ hAlt' = hExpr
    /\ hAltSum' \in HashStreams(hExpr)
    /\ UNCHANGED <<hExpr, hSums, hPerm, hPermSum, hScopes>>
    /\ UNCHANGED notHashVars

HashNext ==
    \/ HashFingerprint
    \/ HashPermuted
    \/ HashReplaced
    \/ HashRegrouped
    \/ HashRebound

SpecHash == HashInit /\ [][HashNext]_vars

(* --------------------------- parallelResolve -------------------------- *)

\* Largest number of elements of the array (or of keys and values of the map)
\* handed to parallelResolve.
MaxParElems == 3

ParVals == {"u", "v"}
\* What an element's Resolve returns: a value and no error, or nil and an error.
ParOutcomes == {[val |-> v, err |-> FALSE] : v \in ParVals} \cup {[val |-> "nil", err |-> TRUE]}

ParElems == 1..Len(pExprs)
\* The goroutines that have stored their result.
ParWritten == Cardinality({k \in ParElems : pGo[k] = "done"})

\* A write that appends in completion order instead.
ValueSlot_Append(i, written) == written + 1
\* "values[i] = val; errs[i] = err": the slot element i's result is stored in.
ValueSlot(i, written) == i

\* A join that keeps the first error only.
JoinErrors_First(errs) ==
    IF \E k \in 1..Len(errs) : errs[k] # 0
    THEN {errs[CHOOSE k \in 1..Len(errs) : errs[k] # 0 /\ \A j \in 1..(k - 1) : errs[j] = 0]}
    ELSE {}
\* errors.Join(errs...): nil (the empty set) when every error is nil, else an
\* error wrapping every non-nil one.
JoinErrors(errs) == {errs[k] : k \in {j \in 1..Len(errs) : errs[j] # 0}}

ParInit ==
    /\ MatOff
    /\ PoolOff
    /\ MapOff
    /\ HashOff
    /\ ScopeOff
    /\ OutOff
    /\ LinkOff
    /\ TreeOff
    /\ RingOff
    /\ pExprs \in UNION {[1..n -> ParOutcomes] : n \in 0..MaxParElems}
    /\ pSerial \in BOOLEAN
    /\ pValues = [k \in 1..Len(pExprs) |-> "nil"]
    /\ pErrs = [k \in 1..Len(pExprs) |-> 0]
    /\ pMu = -1
    /\ pWg = 0
    /\ pMain = "start"
    /\ pNext = 0
    /\ pGo = [k \in 1..Len(pExprs) |-> "none"]
    /\ pRet = <<>>

\* "if !ev.Serial { ...; mu.Lock()", or the start of the serial loop.
ParBegin ==
    /\ pMain = "start"
    /\ pNext' = 1
    /\ IF pSerial
       THEN pMain' = "serial" /\ UNCHANGED pMu
       ELSE pMain' = "spawn" /\ pMu' = 0
    /\ UNCHANGED <<pExprs, pSerial, pValues, pErrs, pWg, pGo, pRet>>
    /\ UNCHANGED notParVars

\* One turn of the loop: "wg.Add(1); go func() {...}()".
ParSpawn ==
    /\ pMain = "spawn"
    /\ pNext <= Len(pExprs)
    /\ pWg' = pWg + 1
    /\ pGo' = [pGo EXCEPT ![pNext] = "resolve"]
    /\ pNext' = pNext + 1
    /\ UNCHANGED <<pExprs, pSerial, pValues, pErrs, pMu, pMain, pRet>>
    /\ UNCHANGED notParVars

\* After the loop: "mu.Unlock()", then the caller is in wg.Wait().
ParUnlock ==
    /\ pMain = "spawn"
    /\ pNext > Len(pExprs)
    /\ pMu' = -1
    /\ pMain' = "wait"
    /\ UNCHANGED <<pExprs, pSerial, pValues, pErrs, pWg, pNext, pGo, pRet>>
    /\ UNCHANGED notParVars

\* Goroutine i: "val, paths, err := v.Resolve(scope, ev)" returns.
ParResolve(i) ==
    /\ i \in ParElems
    /\ pGo[i] = "resolve"
    /\ pGo' = [pGo EXCEPT ![i] = "lock"]
    /\ UNCHANGED <<pExprs, pSerial, pValues, pErrs, pMu, pWg, pMain, pNext, pRet>>
    /\ UNCHANGED notParVars

\* Goroutine i: "mu.Lock()" succeeds.
ParLock(i) ==
    /\ i \in ParElems
    /\ pGo[i] = "lock"
    /\ pMu = -1
    /\ pMu' = i
    /\ pGo' = [pGo EXCEPT ![i] = "write"]
    /\ UNCHANGED <<pExprs, pSerial, pValues, pErrs, pWg, pMain, pNext, pRet>>
    /\ UNCHANGED notParVars

\* Goroutine i: "values[i] = val; errs[i] = err; ...; mu.Unlock(); wg.Done()".
ParWrite(i) ==
    /\ i \in ParElems
    /\ pGo[i] = "write"
    /\ pValues' = [pValues EXCEPT ![ValueSlot(i, ParWritten)] = pExprs[i].val]
    /\ pErrs' = [pErrs EXCEPT ![ValueSlot(i, ParWritten)] = IF pExprs[i].err THEN i ELSE 0]
    /\ pMu' = -1
    /\ pWg' = pWg - 1
    /\ pGo' = [pGo EXCEPT ![i] = "done"]
    /\ UNCHANGED <<pExprs, pSerial, pMain, pNext, pRet>>
    /\ UNCHANGED notParVars

\* "wg.Wait()" returns.
ParWait ==
    /\ pMain = "wait"
    /\ pWg = 0
    /\ pMain' = "join"
    /\ UNCHANGED <<pExprs, pSerial, pValues, pErrs, pMu, pWg, pNext, pGo, pRet>>
    /\ UNCHANGED notParVars

\* One turn of the serial loop: the element is resolved inline and stored.
ParSerialStep ==
    /\ pMain = "serial"
    /\ pNext <= Len(pExprs)
    /\ pValues' = [pValues EXCEPT ![ValueSlot(pNext, ParWritten)] = pExprs[pNext].val]
    /\ pErrs' = [pErrs EXCEPT ![ValueSlot(pNext, ParWritten)] = IF pExprs[pNext].err THEN pNext ELSE 0]
    /\ pGo' = [pGo EXCEPT ![pNext] = "done"]
    /\ pNext' = pNext + 1
    /\ UNCHANGED <<pExprs, pSerial, pMu, pWg, pMain, pRet>>
    /\ UNCHANGED notParVars

\* The serial loop ends.
ParSerialEnd ==
    /\ pMain = "serial"
    /\ pNext > Len(pExprs)
    /\ pMain' = "join"
    /\ UNCHANGED <<pExprs, pSerial, pValues, pErrs, pMu, pWg, pNext, pGo, pRet>>
    /\ UNCHANGED notParVars

\* "return values, deps, errors.Join(errs...)"
ParReturn ==
    /\ pMain = "join"
    /\ pRet' = [values |-> pValues, err |-> JoinErrors(pErrs)]
    /\ pMain' = "done"
    /\ UNCHANGED <<pExprs, pSerial, pValues, pErrs, pMu, pWg, pNext, pGo>>
    /\ UNCHANGED notParVars

ParNext ==
    \/ ParBegin
    \/ ParSpawn
    \/ ParUnlock
    \/ \E i \in 1..MaxParElems : ParResolve(i)
    \/ \E i \in 1..MaxParElems : ParLock(i)
    \/ \E i \in 1..MaxParElems : ParWrite(i)
    \/ ParWait
    \/ ParSerialStep
    \/ ParSerialEnd
    \/ ParReturn

SpecPar == ParInit /\ [][ParNext]_vars

(* ------------------ variables, defines, lambdas, calls ---------------- *)

\* Largest number of nested defines around the body of a program, and the
\* number of elements of its arrays.
MaxDefs == 3
ArrayLen == 2
\* The number of nested calls a goroutine's stack has room for.
MaxCallDepth == 3

\* An expression, as far as Resolve reads it: its type, its name (a variable's
\* name, a number's digits), its formals (LambdaExpr.Args, or the names a
\* DefineExpr binds) and its sub-expressions (lambda: the body; call: the base,
\* then the arguments; define: the bound expressions, then the body; array: the
\* elements).  A value is the expression it resolved to (a number, a lambda,
\* an array of values) or an error.
XExpr(kind, name, formals, subs) ==
    [kind |-> kind, name |-> name, formals |-> formals, subs |-> subs]
XNum(t) == XExpr("number", t, <<>>, <<>>)
XVar(n) == XExpr("var", n, <<>>, <<>>)
XFn(formals, body) == XExpr("fn", "", formals, <<body>>)
XCall(base, args) == XExpr("call", "", <<>>, <<base>> \o args)
XDefine(names, bound, body) == XExpr("define", "", names, Append(bound, body))
XArray(elems) == XExpr("array", "", <<>>, elems)
XPath(n) == XExpr("path", n, <<>>, <<>>)
XInclude(name) == XExpr("include", "", <<>>, <<name>>)
XCond(cond, truly, falsy) == XExpr("cond", "", <<>>, <<cond, truly, falsy>>)
XOutput(n) == XExpr("output", n, <<>>, <<>>)
XError(msg) == XExpr("error", msg, <<>>, <<>>)
XNone == XExpr("none", "", <<>>, <<>>)

\* The programs: up to MaxDefs nested one-binding defines ("let n = e in ...")
\* around a body.  x is bound to numbers, f to lambdas; a body refers to them,
\* calls f, or is an array of such; a lambda's body may be an array of uses of
\* its formal.  Arrays are not nested.  ev.Serial is read by parallelResolve
\* only, so it varies for the programs with an array.
PlainBindings ==
    {<<"x", XNum("1")>>, <<"x", XNum("2")>>,
     <<"f", XFn(<<>>, XVar("x"))>>,
     <<"f", XFn(<<"a">>, XVar("x"))>>,
     <<"f", XFn(<<"a">>, XVar("a"))>>,
     <<"f", XFn(<<"x">>, XVar("x"))>>}
ArrayBindings ==
    {<<"f", XFn(<<"a">>, XArray([k \in 1..ArrayLen |-> XVar("a")]))>>}
SimpleBodies ==
    {XVar("x"), XVar("f"),
     XCall(XVar("f"), <<>>), XCall(XVar("f"), <<XVar("x")>>), XCall(XVar("f"), <<XNum("2")>>)}
ElemBodies == {XVar("x"), XCall(XVar("f"), <<XVar("x")>>)}
\* Arrays: every element the same, or a call followed by references.
ArrayBodies ==
    {XArray([k \in 1..ArrayLen |-> e]) : e \in ElemBodies}
        \cup {XArray([k \in 1..ArrayLen |->
                         IF k = 1 THEN XCall(XVar("f"), <<XVar("x")>>) ELSE XVar("x")])}

RECURSIVE Chains(_, _, _)
Chains(k, bindings, bodies) ==
    IF k = 0 THEN bodies
    ELSE LET inner == Chains(k - 1, bindings, bodies)
         IN  inner \cup {XDefine(<<b[1]>>, <<b[2]>>, p) : b \in bindings, p \in inner}
\* The programs without an array, and those that resolve one (as the body of a
\* lambda, or as the body of the program under one define less).
SimplePrograms == Chains(MaxDefs, PlainBindings, SimpleBodies)
ArrayPrograms ==
    (Chains(MaxDefs, PlainBindings \cup ArrayBindings, SimpleBodies) \ SimplePrograms)
        \cup Chains(MaxDefs - 1, PlainBindings, ArrayBodies)
\* Defines with several bindings, of which one refers to a sibling (in a bound
\* expression that is resolved at once, or in the body of a bound lambda), bare
\* or under an outer binding of the sibling's name.
SiblingDefines ==
    {XDefine(<<"x", "y">>, <<XNum("2"), XVar("x")>>, XVar("y")),
     XDefine(<<"y", "x">>, <<XVar("x"), XNum("2")>>, XVar("y")),
     XDefine(<<"f", "x">>, <<XFn(<<>>, XVar("x")), XNum("2")>>, XCall(XVar("f"), <<>>))}
SiblingPrograms ==
    SiblingDefines \cup {XDefine(<<"x">>, <<XNum("1")>>, p) : p \in SiblingDefines}
\* Conditions: the predicate is a number, a reference to one (or to nothing), or
\* a reference to a lambda; the branches are two different ones of two output
\* forms and a reference to an unbound name.
CondBindings == {<<"x", XNum("0")>>, <<"x", XNum("1")>>, <<"x", XFn(<<>>, XNum("1"))>>}
CondTests == {XNum("0"), XNum("1"), XVar("x")}
CondBranches == {XOutput("p"), XOutput("q"), XVar("z")}
CondBodies ==
    {e \in {XCond(c, a, b) : c \in CondTests, a \in CondBranches, b \in CondBranches} :
        e.subs[2] # e.subs[3]}
CondPrograms == Chains(1, CondBindings, CondBodies)

\* Included files, as ev.ParseFile returns them: lib binds x around its value,
\* use refers to the x of whoever includes it; no other file can be opened.
IncludeFiles ==
    ("lib" :> XDefine(<<"x">>, <<XNum("2")>>, XVar("x"))) @@ ("use" :> XVar("x"))
\* Expressions that include lib and refer to x next to the include.
IncludeConsumers ==
    {XArray([k \in 1..ArrayLen |-> IF k = 1 THEN XInclude(XPath("lib")) ELSE XVar("x")])}
IncludeBodies ==
    {XInclude(XPath("lib")), XInclude(XPath("use")), XInclude(XPath("gone")),
     XInclude(XNum("1")), XInclude(XVar("x"))} \cup IncludeConsumers
IncludePrograms == Chains(1, {<<"x", XNum("1")>>}, IncludeBodies)

\* A lambda whose body calls the name the lambda is bound to, bare and under
\* an outer binding of that name.
RecursiveDefines ==
    {XDefine(<<"f">>, <<XFn(<<>>, XCall(XVar("f"), <<>>))>>, XCall(XVar("f"), <<>>))}
RecursivePrograms ==
    RecursiveDefines \cup {XDefine(<<"f">>, <<XFn(<<>>, XNum("1"))>>, p) : p \in RecursiveDefines}

Programs ==
    SimplePrograms \cup ArrayPrograms \cup SiblingPrograms \cup CondPrograms
        \cup IncludePrograms \cup RecursivePrograms

\* Scope: a Go map from names to Variable{Expr, Scope}; the captured scope is a
\* reference (an index into sHeap).
Variable(expr, scope) == [expr |-> expr, scope |-> scope]
\* "newscope[name] = Variable{exprs[i], captured}" for the first n of the names.
RECURSIVE BindAll(_, _, _, _, _)
BindAll(sc, names, bound, captured, n) ==
    IF n = 0 THEN sc
    ELSE LET prev == BindAll(sc, names, bound, captured, n - 1)
         IN  [k \in (DOMAIN prev) \cup {names[n]} |->
                 IF k = names[n] THEN Variable(bound[n], captured) ELSE prev[k]]

\* A define that extends the scope it was given.
DefineScopes_InPlace(heap, sc, e) ==
    <<[heap EXCEPT ![sc] = BindAll(heap[sc], e.formals, e.subs, sc, Len(e.formals))], sc>>
\* DefineExpr.Resolve: "newscope := maps.Clone(scope)", then every binding is
\* stored into newscope with the scope given: <<the heap after, newscope>>.
DefineScopes(heap, sc, e) ==
    <<Append(heap, BindAll(heap[sc], e.formals, e.subs, sc, Len(e.formals))), Len(heap) + 1>>

\* A call that only asks for at least as many arguments as the lambda has formals.
ArityMatches_AtMost(lambda, call) == Len(lambda.formals) <= Len(call.subs) - 1
\* CallExpr.Resolve: "len(lambda.Args) != len(obj.Args)" is the arity error.
ArityMatches(lambda, call) == Len(lambda.formals) = Len(call.subs) - 1

\* A lambda that resolves to its body.
LiteralValue_Body(e) == IF e.kind = "fn" THEN e.subs[1] ELSE e
\* NumberExpr.Resolve, LambdaExpr.Resolve: "return obj, nil, nil".
LiteralValue(e) == e

\* CallExpr.Resolve: "newscope := scope", cloned and extended with the formals,
\* each bound to its argument expression and the caller's scope, when the
\* lambda has formals: <<the heap after, newscope>>.
CallScopes(heap, sc, lambda, call) ==
    IF lambda.formals = <<>> THEN <<heap, sc>>
    ELSE <<Append(heap, BindAll(heap[sc], lambda.formals, Tail(call.subs),
                                sc, Len(lambda.formals))),
           Len(heap) + 1>>

\* A reference that resolves the bound expression in the scope of the reference.
VarTarget_OwnScope(binding, sc) == [expr |-> binding.expr, scope |-> sc]
\* VarExpr.Resolve: "return expr.Expr.Resolve(expr.Scope, ev)".
VarTarget(binding, sc) == [expr |-> binding.expr, scope |-> binding.scope]

SThreads == 0..ArrayLen
SElemThreads == 1..ArrayLen

\* A thread's Resolve: st is "idle" (not started), "eval" (Resolve(expr, scope)
\* is about to run), "ret" (a Resolve returned val to the frame on top of the
\* stack), "wait" (in parallelResolve), "done", "overflow" (the Go stack is exhausted:
\* the runtime ends the process); nested counts the CallExpr.Resolve calls that
\* are resolving their lambda's body ("return obj.Body.Resolve(newscope, ev)"
\* keeps the caller's frame); stack holds the CallExpr.Resolve
\* frames waiting for their base; at is the scope val was resolved in (history).
SThread(st, expr, scope, stack, val, at) ==
    [st |-> st, expr |-> expr, scope |-> scope, stack |-> stack, val |-> val, at |-> at,
     nested |-> 0]

ScopeInit ==
    /\ MatOff
    /\ PoolOff
    /\ MapOff
    /\ HashOff
    /\ ParOff
    /\ OutOff
    /\ LinkOff
    /\ TreeOff
    /\ RingOff
    /\ sProg \in Programs
    /\ sSerial \in (IF sProg \in ArrayPrograms \cup IncludePrograms \cup RecursivePrograms
                    THEN BOOLEAN ELSE {FALSE})
    /\ sHeap = << <<>> >>
    /\ sTh = [t \in SThreads |->
                IF t = 0 THEN SThread("eval", sProg, 1, <<>>, XNone, 0)
                ELSE SThread("idle", XNone, 0, <<>>, XNone, 0)]
    /\ sCalls = {}
    /\ sUses = 0
    /\ sBuilt = {}

\* Thread t is scheduled: the driver, a goroutine of a parallel resolve, or the
\* element the serial loop has reached.
SRuns(t) ==
    /\ sProg # <<>>
    /\ t = 0 \/ ~sSerial \/ \A j \in 1..(t - 1) : sTh[j].st = "done"

\* The bindings calls have made for formals: a reference to one is a use of a formal.
FormalBindings ==
    UNION {{Variable(c.call.subs[i + 1], c.callScope) : i \in 1..Len(c.lambda.formals)} :
               c \in sCalls}

\* NumberExpr.Resolve, LambdaExpr.Resolve, PathExpr.Resolve: "return obj, nil, nil".
SLiteral(t) ==
    /\ SRuns(t)
    /\ sTh[t].st = "eval"
    /\ sTh[t].expr.kind \in {"number", "fn", "path"}
    /\ sTh' = [sTh EXCEPT ![t].st = "ret", ![t].val = LiteralValue(sTh[t].expr),
                          ![t].at = sTh[t].scope]
    /\ UNCHANGED <<sProg, sSerial, sBuilt, sHeap, sCalls, sUses>>
    /\ UNCHANGED notScopeVars

\* VarExpr.Resolve: the name is looked up in the scope; the bound expression is
\* resolved in the scope bound with it.
SVar(t) ==
    /\ SRuns(t)
    /\ sTh[t].st = "eval"
    /\ sTh[t].expr.kind = "var"
    /\ LET sc == sHeap[sTh[t].scope]
           n == sTh[t].expr.name
       IN  IF n \notin DOMAIN sc
           THEN /\ sTh' = [sTh EXCEPT ![t].st = "ret", ![t].val = XError("not in scope"),
                                      ![t].at = sTh[t].scope]
                /\ UNCHANGED sUses
           ELSE /\ sTh' = [sTh EXCEPT ![t].expr = VarTarget(sc[n], sTh[t].scope).expr,
                                      ![t].scope = VarTarget(sc[n], sTh[t].scope).scope]
                /\ sUses' = IF sc[n] \in FormalBindings THEN sUses + 1 ELSE sUses
    /\ UNCHANGED <<sProg, sSerial, sBuilt, sHeap, sCalls>>
    /\ UNCHANGED notScopeVars

\* DefineExpr.Resolve: the body is resolved in the extended clone.
SDefine(t) ==
    /\ SRuns(t)
    /\ sTh[t].st = "eval"
    /\ sTh[t].expr.kind = "define"
    /\ LET r == DefineScopes(sHeap, sTh[t].scope, sTh[t].expr)
           e == sTh[t].expr
       IN  /\ sHeap' = r[1]
           /\ sTh' = [sTh EXCEPT ![t].expr = e.subs[Len(e.subs)], ![t].scope = r[2]]
    /\ UNCHANGED <<sProg, sSerial, sBuilt, sCalls, sUses>>
    /\ UNCHANGED notScopeVars

\* CallExpr.Resolve: "value, deps, err := obj.Base.Resolve(scope, ev)".
SCall(t) ==
    /\ SRuns(t)
    /\ sTh[t].st = "eval"
    /\ sTh[t].expr.kind = "call"
    /\ sTh' = [sTh EXCEPT ![t].stack = Append(@, [expr |-> sTh[t].expr, scope |-> sTh[t].scope]),
                          ![t].expr = sTh[t].expr.subs[1]]
    /\ UNCHANGED <<sProg, sSerial, sBuilt, sHeap, sCalls, sUses>>
    /\ UNCHANGED notScopeVars

\* CallExpr.Resolve after its base returned: an error is handed on; a value that
\* is no lambda and a wrong number of arguments are errors; else the formals are
\* bound and the lambda's body is resolved.
SReturn(t) ==
    /\ SRuns(t)
    /\ sTh[t].st = "ret"
    /\ sTh[t].stack # <<>>
    /\ sTh[t].stack[Len(sTh[t].stack)].expr.kind = "call"
    /\ LET frame == sTh[t].stack[Len(sTh[t].stack)]
           rest == SubSeq(sTh[t].stack, 1, Len(sTh[t].stack) - 1)
           v == sTh[t].val
           r == CallScopes(sHeap, frame.scope, v, frame.expr)
       IN  IF v.kind = "error"
           THEN /\ sTh' = [sTh EXCEPT ![t].stack = rest]
                /\ UNCHANGED <<sHeap, sCalls>>
           ELSE IF v.kind # "fn"
           THEN /\ sTh' = [sTh EXCEPT ![t].stack = rest, ![t].val = XError("unable to call")]
                /\ UNCHANGED <<sHeap, sCalls>>
           ELSE IF ~ArityMatches(v, frame.expr)
           THEN /\ sTh' = [sTh EXCEPT ![t].stack = rest, ![t].val = XError("arguments")]
                /\ UNCHANGED <<sHeap, sCalls>>
           ELSE IF sTh[t].nested >= MaxCallDepth
           THEN /\ sTh' = [sTh EXCEPT ![t].st = "overflow"]
                /\ UNCHANGED <<sHeap, sCalls>>
           ELSE /\ sHeap' = r[1]
                /\ sTh' = [sTh EXCEPT ![t].stack = rest, ![t].st = "eval",
                                      ![t].expr = v.subs[1], ![t].scope = r[2],
                                      ![t].val = XNone, ![t].nested = @ + 1]
                /\ sCalls' = sCalls \cup
                       {[lambda |-> v, call |-> frame.expr, defScope |-> sTh[t].at,
                         callScope |-> frame.scope, bodyScope |-> r[2]]}
    /\ UNCHANGED <<sProg, sSerial, sBuilt, sUses>>
    /\ UNCHANGED notScopeVars

\* IncludeExpr.Resolve: "pathAny, deps, err := obj.Name.Resolve(scope, ev)";
\* ConditionExpr.Resolve: "cond, deps, err := obj.Cond.Resolve(scope, ev)".
SOperand(t) ==
    /\ SRuns(t)
    /\ sTh[t].st = "eval"
    /\ sTh[t].expr.kind \in {"include", "cond"}
    /\ sTh' = [sTh EXCEPT ![t].stack = Append(@, [expr |-> sTh[t].expr, scope |-> sTh[t].scope]),
                          ![t].expr = sTh[t].expr.subs[1]]
    /\ UNCHANGED <<sProg, sSerial, sBuilt, sHeap, sCalls, sUses>>
    /\ UNCHANGED notScopeVars

\* IncludeExpr.Resolve after its name returned: an error is handed on; a value
\* that is no path and a file that cannot be opened are errors; else the
\* parsed expression is resolved in the scope of the include.
SInclude(t) ==
    /\ SRuns(t)
    /\ sTh[t].st = "ret"
    /\ sTh[t].stack # <<>>
    /\ sTh[t].stack[Len(sTh[t].stack)].expr.kind = "include"
    /\ LET frame == sTh[t].stack[Len(sTh[t].stack)]
           rest == SubSeq(sTh[t].stack, 1, Len(sTh[t].stack) - 1)
           v == sTh[t].val
       IN  IF v.kind = "error"
           THEN sTh' = [sTh EXCEPT ![t].stack = rest]
           ELSE IF v.kind # "path"
           THEN sTh' = [sTh EXCEPT ![t].stack = rest,
                                   ![t].val = XError("unable to include non-path")]
           ELSE IF v.name \notin DOMAIN IncludeFiles
           THEN sTh' = [sTh EXCEPT ![t].stack = rest,
                                   ![t].val = XError("failed to open file")]
           ELSE sTh' = [sTh EXCEPT ![t].stack = rest, ![t].st = "eval",
                                   ![t].expr = IncludeFiles[v.name],
                                   ![t].scope = frame.scope, ![t].val = XNone]
    /\ UNCHANGED <<sProg, sSerial, sBuilt, sHeap, sCalls, sUses>>
    /\ UNCHANGED notScopeVars

\* A branch that is chosen when the predicate is false.
ChosenBranch_Negated(cond, b) == IF b THEN cond.subs[3] ELSE cond.subs[2]
\* ConditionExpr.Resolve: "if b { expr = obj.Truly } else { expr = obj.Falsy }".
ChosenBranch(cond, b) == IF b THEN cond.subs[2] ELSE cond.subs[3]

\* Value.Boolean(): a number is true when it is not 0, a path always, an array
\* when it has elements; a lambda has no truth value: "true" | "false" | "error".
BooleanOf(v) ==
    CASE v.kind = "number" -> IF v.name # "0" THEN "true" ELSE "false"
      [] v.kind = "path" -> "true"
      [] v.kind = "array" -> IF Len(v.subs) > 0 THEN "true" ELSE "false"
      [] OTHER -> "error"

\* ConditionExpr.Resolve after its predicate returned: an error, and a value
\* without a truth value, are handed on as the error; else the branch chosen
\* is resolved in the scope of the condition.
SBranch(t) ==
    /\ SRuns(t)
    /\ sTh[t].st = "ret"
    /\ sTh[t].stack # <<>>
    /\ sTh[t].stack[Len(sTh[t].stack)].expr.kind = "cond"
    /\ LET frame == sTh[t].stack[Len(sTh[t].stack)]
           rest == SubSeq(sTh[t].stack, 1, Len(sTh[t].stack) - 1)
           v == sTh[t].val
       IN  IF v.kind = "error"
           THEN sTh' = [sTh EXCEPT ![t].stack = rest]
           ELSE IF BooleanOf(v) = "error"
           THEN sTh' = [sTh EXCEPT ![t].stack = rest,
                                   ![t].val = XError("no boolean expression")]
           ELSE sTh' = [sTh EXCEPT ![t].stack = rest, ![t].st = "eval",
                                   ![t].expr = ChosenBranch(frame.expr, BooleanOf(v) = "true"),
                                   ![t].scope = frame.scope, ![t].val = XNone]
    /\ UNCHANGED <<sProg, sSerial, sBuilt, sHeap, sCalls, sUses>>
    /\ UNCHANGED notScopeVars

\* OutputExpr.Resolve, for a form with constant attributes and a script that
\* succeeds: the output is materialized under its store name (script run, store
\* entry, ev.Outputs) and its path is the value.
SOutput(t) ==
    /\ SRuns(t)
    /\ sTh[t].st = "eval"
    /\ sTh[t].expr.kind = "output"
    /\ sBuilt' = sBuilt \cup {sTh[t].expr.name}
    /\ sTh' = [sTh EXCEPT ![t].st = "ret", ![t].val = XPath(sTh[t].expr.name),
                          ![t].at = sTh[t].scope]
    /\ UNCHANGED <<sProg, sSerial, sHeap, sCalls, sUses>>
    /\ UNCHANGED notScopeVars

\* The thread's outermost Resolve returns.
SFinish(t) ==
    /\ SRuns(t)
    /\ sTh[t].st = "ret"
    /\ sTh[t].stack = <<>>
    /\ sTh' = [sTh EXCEPT ![t].st = "done"]
    /\ UNCHANGED <<sProg, sSerial, sBuilt, sHeap, sCalls, sUses>>
    /\ UNCHANGED notScopeVars

\* ArrayExpr.Resolve: parallelResolve hands every element, with the array's
\* scope, to a sub-reduction.
SSpawn ==
    /\ SRuns(0)
    /\ sTh[0].st = "eval"
    /\ sTh[0].expr.kind = "array"
    /\ sTh' = [t \in SThreads |->
                 IF t = 0 THEN [sTh[0] EXCEPT !.st = "wait"]
                 ELSE SThread("eval", sTh[0].expr.subs[t], sTh[0].scope, <<>>, XNone, 0)]
    /\ UNCHANGED <<sProg, sSerial, sBuilt, sHeap, sCalls, sUses>>
    /\ UNCHANGED notScopeVars

\* parallelResolve returns: the values in declared order, or the joined errors.
SJoin ==
    /\ SRuns(0)
    /\ sTh[0].st = "wait"
    /\ \A t \in SElemThreads : sTh[t].st = "done"
    /\ sTh' = [sTh EXCEPT ![0].st = "done",
                          ![0].val = IF \E t \in SElemThreads : sTh[t].val.kind = "error"
                                     THEN XError("joined")
                                     ELSE XArray([t \in SElemThreads |-> sTh[t].val])]
    /\ UNCHANGED <<sProg, sSerial, sBuilt, sHeap, sCalls, sUses>>
    /\ UNCHANGED notScopeVars

ScopeNext ==
    \/ \E t \in SThreads : SLiteral(t)
    \/ \E t \in SThreads : SVar(t)
    \/ \E t \in SThreads : SDefine(t)
    \/ \E t \in SThreads : SCall(t)
    \/ \E t \in SThreads : SReturn(t)
    \/ \E t \in SThreads : SOperand(t)
    \/ \E t \in SThreads : SInclude(t)
    \/ \E t \in SThreads : SBranch(t)
    \/ \E t \in SThreads : SOutput(t)
    \/ \E t \in SThreads : SFinish(t)
    \/ SSpawn
    \/ SJoin

SpecScope == ScopeInit /\ [][ScopeNext]_vars

\* The value of the program, once the driver's Resolve has returned.
SDone == sProg # <<>> /\ sTh[0].st = "done"

\* No sub-reduction of an array element meets an array of its own.
SArraysNotNested ==
    sProg # <<>> => \A t \in SElemThreads : sTh[t].expr.kind # "array"

(* ------------------- one output form, step by step -------------------- *)

\* Largest number of elements of the args array.
MaxArgs == 2

\* A resolved attribute: its type ("absent" when the attribute set has no such
\* key) and its content (a string's text, a path's name, an array's elements).
AVal(t, v) == [t |-> t, v |-> v]
Absent == AVal("absent", <<>>)

\* The elements of an args array: the strings a and b, and a number.
ArgStrings == {"a", "b"}
ArgElems == ArgStrings \cup {"1"}

\* The names an output form is given, and each split at its slashes.
OutNames == {"pkg", "a/../../x", "a/../0b00-lib"}
NameComponents ==
    ("pkg" :> <<"pkg">>) @@ ("a/../../x" :> <<"a", "..", "..", "x">>)
        @@ ("a/../0b00-lib" :> <<"a", "..", "0b00-lib">>)

\* The attribute sets: name, output, interpreter, builder, args, source, and one
\* further attribute (absent, or a lambda, which cannot be encoded).
AttrNames == {"name", "output", "interpreter", "builder", "args", "source", "extra"}
AttrChoices(a) ==
    CASE a = "name" -> {Absent, AVal("number", <<"1">>)}
                           \cup {AVal("string", <<n>>) : n \in OutNames}
      [] a = "output" -> {Absent, AVal("string", <<"make">>), AVal("number", <<"1">>)}
      [] a = "interpreter" -> {Absent, AVal("string", <<"bash">>)}
      [] a = "builder" -> {Absent, AVal("string", <<"./build">>)}
      [] a = "args" -> {Absent, AVal("number", <<"1">>)}
                           \cup {AVal("array", v) : v \in SeqsUpTo(ArgElems, MaxArgs)}
      [] a = "source" -> {Absent, AVal("path", <<"./src">>), AVal("string", <<"src">>)}
      [] a = "extra" -> {Absent, AVal("lambda", <<>>)}
OutAttrSets ==
    [name : AttrChoices("name"), output : AttrChoices("output"),
     interpreter : AttrChoices("interpreter"), builder : AttrChoices("builder"),
     args : AttrChoices("args"), source : AttrChoices("source"),
     extra : AttrChoices("extra")]

\* hashlib.Sum(nil): the fingerprint's bytes (two of them stand for the sixteen).
Hashsum == <<10, 255>>
\* fmt's %x of a byte slice: two lowercase hexadecimal digits per byte.
HexDigits == <<"0", "1", "2", "3", "4", "5", "6", "7", "8", "9", "a", "b", "c", "d", "e", "f">>
RECURSIVE Hex(_)
Hex(bytes) ==
    IF bytes = <<>> THEN ""
    ELSE HexDigits[(Head(bytes) \div 16) + 1] \o HexDigits[(Head(bytes) % 16) + 1]
             \o Hex(Tail(bytes))
\* "hashstr := fmt.Sprintf("%x-%s", hashsum, name.Content)"
Hashstr(hashsum, name) == Hex(hashsum) \o "-" \o name

\* path.Clean on components: a ".." takes the component before it away.
RECURSIVE Clean(_, _)
Clean(acc, rest) ==
    IF rest = <<>> THEN acc
    ELSE IF Head(rest) = ".." /\ acc # <<>>
    THEN Clean(SubSeq(acc, 1, Len(acc) - 1), Tail(rest))
    ELSE Clean(Append(acc, Head(rest)), Tail(rest))
\* The working directory and ev.CacheDir below it, as components.
CacheDir == <<"cwd", "cache">>
\* "outdir := path.Join(cwd, ev.CacheDir, hashstr)": the elements are joined
\* with slashes and the result is cleaned, so the slashes of the name separate
\* components, the first of which carries the hexadecimal prefix.
Outdir(hashsum, name) ==
    Clean(<<>>, CacheDir \o <<Hashstr(hashsum, Head(NameComponents[name]))>>
                    \o Tail(NameComponents[name]))

\* GetValue[T]: "ok", or the error for a missing attribute or one of another type.
GetValue(attrs, name, t) ==
    IF attrs[name].t = "absent" THEN "has no attribute"
    ELSE IF attrs[name].t # t THEN "should be a"
    ELSE "ok"

\* ev.Interpreter's default (README: flag "interpreter", "sh").
DefaultInterpreter == "sh"

\* A script selection that leaves the command line empty when the attribute
\* set has neither output nor builder.
SelectScript_NoCheck(attrs) ==
    IF attrs["output"].t # "absent"
    THEN IF attrs["output"].t # "string"
         THEN [err |-> "output should be a", cmdline |-> <<>>]
         ELSE [err |-> "",
               cmdline |-> <<IF attrs["interpreter"].t # "absent"
                                THEN attrs["interpreter"].v[1] ELSE "sh",
                             "-e", "-c", attrs["output"].v[1], "builder">>]
    ELSE IF attrs["builder"].t # "absent"
    THEN [err |-> "", cmdline |-> <<attrs["builder"].v[1]>>]
    ELSE [err |-> "", cmdline |-> <<>>]
\* Script selection: [err, cmdline], from output (with interpreter), else from
\* builder, else the error.
SelectScript(attrs) ==
    IF attrs["output"].t # "absent"
    THEN IF GetValue(attrs, "output", "string") # "ok"
         THEN [err |-> "output " \o GetValue(attrs, "output", "string"), cmdline |-> <<>>]
         ELSE [err |-> "",
               cmdline |-> <<IF attrs["interpreter"].t # "absent"
                                THEN attrs["interpreter"].v[1] ELSE DefaultInterpreter,
                             "-e", "-c", attrs["output"].v[1], "builder">>]
    ELSE IF attrs["builder"].t # "absent"
    THEN [err |-> "", cmdline |-> <<attrs["builder"].v[1]>>]
    ELSE [err |-> "missing output or builder", cmdline |-> <<>>]

\* "for _, elem := range args.Values[1:]": the slice expression panics on an
\* empty array; a non-string element is an error; else every element from the
\* second on is appended in order: [err, cmdline].
AppendArgs(cmdline, values) ==
    IF Len(values) < 1 THEN [err |-> "panic", cmdline |-> cmdline]
    ELSE IF \E k \in 2..Len(values) : values[k] \notin ArgStrings
    THEN [err |-> "non-string in args", cmdline |-> cmdline]
    ELSE [err |-> "", cmdline |-> cmdline \o Tail(values)]

\* Value.encodeEnviron(true) of every attribute: whether one returns an error.
EncodeFails(attrs) == \E a \in AttrNames : attrs[a].t = "lambda"

\* A deferred function that removes the working directory whatever it is.
DirsAfterDefers_Always(builddir, dirs, defers, flags) ==
    IF \E k \in 1..Len(defers) : defers[k] = "builddir"
    THEN [dirs EXCEPT ![builddir] = "removed"] ELSE dirs
\* "defer func() { if deletebuilddir { os.RemoveAll(builddir) } }()": the
\* directories (tmp: the temporary one, src: the one source names) after it.
DirsAfterDefers(builddir, dirs, defers, flags) ==
    IF \E k \in 1..Len(defers) : defers[k] = "builddir" /\ flags.deletebuilddir
    THEN [dirs EXCEPT ![builddir] = "removed"] ELSE dirs
\* "defer func() { if !success { os.RemoveAll(outdir) } }()"
StoreAfterDefers(entry, defers, flags) ==
    IF \E k \in 1..Len(defers) : defers[k] = "outdir" /\ ~flags.success
    THEN FALSE ELSE entry

OutInit ==
    /\ MatOff
    /\ PoolOff
    /\ MapOff
    /\ HashOff
    /\ ParOff
    /\ ScopeOff
    /\ LinkOff
    /\ TreeOff
    /\ RingOff
    /\ oAttrs \in OutAttrSets
    /\ oNoEval \in BOOLEAN
    /\ oForce \in BOOLEAN
    /\ oDry \in (IF oForce THEN {FALSE} ELSE BOOLEAN)
    /\ oExit \in {0, 1}
    /\ oMkdirErr \in (IF oAttrs["source"].t = "absent" THEN BOOLEAN ELSE {FALSE})
    /\ oStore \in BOOLEAN
    /\ oPc = "name"
    /\ oHashstr = ""
    /\ oOutputs = <<>>
    /\ oCmdline = <<>>
    /\ oBuilddir = ""
    /\ oTmp = "none"
    /\ oSrc = "exists"
    /\ oDefers = <<>>
    /\ oFlags = [success |-> FALSE, deletebuilddir |-> FALSE]
    /\ oRan = <<>>
    /\ oRet = "none"

\* OutputExpr.Resolve up to the registration: the name is read with GetValue,
\* the store name is formatted and appended to ev.Outputs.
OName ==
    /\ oPc = "name"
    /\ IF GetValue(oAttrs, "name", "string") # "ok"
       THEN /\ oRet' = "name " \o GetValue(oAttrs, "name", "string")
            /\ oPc' = "unwind"
            /\ UNCHANGED <<oHashstr, oOutputs>>
       ELSE /\ oHashstr' = Hashstr(Hashsum, oAttrs["name"].v[1])
            /\ oOutputs' = Append(oOutputs, Hashstr(Hashsum, oAttrs["name"].v[1]))
            /\ oPc' = "probe"
            /\ UNCHANGED oRet
    /\ UNCHANGED <<oAttrs, oNoEval, oForce, oDry, oExit, oMkdirErr, oStore, oCmdline, oBuilddir,
                   oTmp, oSrc, oDefers, oFlags, oRan>>
    /\ UNCHANGED notOutVars

\* The cache probe: a hit returns the path.
OProbe ==
    /\ oPc = "probe"
    /\ IF ProbeHit(oDry, oForce, oStore)
       THEN oRet' = "path" /\ oPc' = "done"
       ELSE oRet' = oRet /\ oPc' = "remove"
    /\ UNCHANGED <<oAttrs, oNoEval, oForce, oDry, oExit, oMkdirErr, oHashstr, oOutputs, oStore,
                   oCmdline, oBuilddir, oTmp, oSrc, oDefers, oFlags, oRan>>
    /\ UNCHANGED notOutVars

\* "os.RemoveAll(outdir); success := false; defer ..."
ORemove ==
    /\ oPc = "remove"
    /\ oStore' = FALSE
    /\ oDefers' = Append(oDefers, "outdir")
    /\ oPc' = "select"
    /\ UNCHANGED <<oAttrs, oNoEval, oForce, oDry, oExit, oMkdirErr, oHashstr, oOutputs,
                   oCmdline, oBuilddir, oTmp, oSrc, oFlags, oRan, oRet>>
    /\ UNCHANGED notOutVars

\* Script selection.
OSelect ==
    /\ oPc = "select"
    /\ LET r == SelectScript(oAttrs)
       IN  IF r.err # ""
           THEN oRet' = r.err /\ oPc' = "unwind" /\ UNCHANGED oCmdline
           ELSE oCmdline' = r.cmdline /\ oPc' = "args" /\ UNCHANGED oRet
    /\ UNCHANGED <<oAttrs, oNoEval, oForce, oDry, oExit, oMkdirErr, oHashstr, oOutputs, oStore,
                   oBuilddir, oTmp, oSrc, oDefers, oFlags, oRan>>
    /\ UNCHANGED notOutVars

\* The args attribute, when there is one.
OArgs ==
    /\ oPc = "args"
    /\ IF oAttrs["args"].t = "absent"
       THEN oPc' = "builddir" /\ UNCHANGED <<oCmdline, oRet>>
       ELSE IF GetValue(oAttrs, "args", "array") # "ok"
       THEN /\ oRet' = "args " \o GetValue(oAttrs, "args", "array")
            /\ oPc' = "unwind" /\ UNCHANGED oCmdline
       ELSE LET r == AppendArgs(oCmdline, oAttrs["args"].v)
            IN  IF r.err # ""
                THEN oRet' = r.err /\ oPc' = "unwind" /\ UNCHANGED oCmdline
                ELSE oCmdline' = r.cmdline /\ oPc' = "builddir" /\ UNCHANGED oRet
    /\ UNCHANGED <<oAttrs, oNoEval, oForce, oDry, oExit, oMkdirErr, oHashstr, oOutputs, oStore,
                   oBuilddir, oTmp, oSrc, oDefers, oFlags, oRan>>
    /\ UNCHANGED notOutVars

\* The working directory: the source directory, or a fresh temporary one that
\* is to be deleted; then the deferred removal is registered.
OBuilddir ==
    /\ oPc = "builddir"
    /\ IF oAttrs["source"].t # "absent"
       THEN IF GetValue(oAttrs, "source", "path") # "ok"
            THEN /\ oRet' = "source " \o GetValue(oAttrs, "source", "path")
                 /\ oPc' = "unwind"
                 /\ UNCHANGED <<oBuilddir, oTmp, oDefers, oFlags>>
            ELSE /\ oBuilddir' = "src"
                 /\ oDefers' = Append(oDefers, "builddir")
                 /\ oPc' = "environ"
                 /\ UNCHANGED <<oRet, oTmp, oFlags>>
       ELSE IF oMkdirErr
            THEN /\ oRet' = "mkdirtemp"
                 /\ oPc' = "unwind"
                 /\ UNCHANGED <<oBuilddir, oTmp, oDefers, oFlags>>
            ELSE /\ oBuilddir' = "tmp"
                 /\ oTmp' = "exists"
                 /\ oFlags' = [oFlags EXCEPT !.deletebuilddir = TRUE]
                 /\ oDefers' = Append(oDefers, "builddir")
                 /\ oPc' = "environ"
                 /\ UNCHANGED oRet
    /\ UNCHANGED <<oAttrs, oNoEval, oForce, oDry, oExit, oMkdirErr, oHashstr, oOutputs, oStore,
                   oCmdline, oSrc, oRan>>
    /\ UNCHANGED notOutVars

\* The environment: every attribute is encoded.
OEnviron ==
    /\ oPc = "environ"
    /\ IF EncodeFails(oAttrs)
       THEN oRet' = "unable to encode" /\ oPc' = "unwind"
       ELSE oRet' = oRet /\ oPc' = "run"
    /\ UNCHANGED <<oAttrs, oNoEval, oForce, oDry, oExit, oMkdirErr, oHashstr, oOutputs, oStore,
                   oCmdline, oBuilddir, oTmp, oSrc, oDefers, oFlags, oRan>>
    /\ UNCHANGED notOutVars

\* "cmd := exec.Command(cmdline[0], cmdline[1:]...); cmd.Dir = builddir;
\* cmd.Run()": the script creates $out and exits.
ORun ==
    /\ oPc = "run"
    /\ oRan' = Append(oRan, [cmdline |-> oCmdline, dir |-> oBuilddir])
    /\ oStore' = TRUE
    /\ IF oExit # 0
       THEN oRet' = "building failed" /\ UNCHANGED oFlags
       ELSE oRet' = "path" /\ oFlags' = [oFlags EXCEPT !.success = TRUE]
    /\ oPc' = "unwind"
    /\ UNCHANGED <<oAttrs, oNoEval, oForce, oDry, oExit, oMkdirErr, oHashstr, oOutputs,
                   oCmdline, oBuilddir, oTmp, oSrc, oDefers>>
    /\ UNCHANGED notOutVars

\* Resolve returns (or panics): the deferred functions run.
OUnwind ==
    /\ oPc = "unwind"
    /\ oTmp' = DirsAfterDefers(oBuilddir, [tmp |-> oTmp, src |-> oSrc], oDefers, oFlags).tmp
    /\ oSrc' = DirsAfterDefers(oBuilddir, [tmp |-> oTmp, src |-> oSrc], oDefers, oFlags).src
    /\ oStore' = StoreAfterDefers(oStore, oDefers, oFlags)
    /\ oPc' = "done"
    /\ UNCHANGED <<oAttrs, oNoEval, oForce, oDry, oExit, oMkdirErr, oHashstr, oOutputs,
                   oCmdline, oBuilddir, oDefers, oFlags, oRan, oRet>>
    /\ UNCHANGED notOutVars

OutNext ==
    \/ OName
    \/ OProbe
    \/ ORemove
    \/ OSelect
    \/ OArgs
    \/ OBuilddir
    \/ OEnviron
    \/ ORun
    \/ OUnwind

SpecOut == OutInit /\ [][OutNext]_vars

(* ------------------- the projection of the result -------------------- *)

\* Largest number of elements of the array the program resolves to.
MaxLinkElems == 2

\* A resolved value: its type, a path's name, an array's elements.
LVal(kind, name, elems) == [kind |-> kind, name |-> name, elems |-> elems]
StorePaths == {"/store/a", "/store/b"}
LinkPathValues == {LVal("path", p, <<>>) : p \in StorePaths}
LinkElemValues == LinkPathValues \cup {LVal("string", "", <<>>)}
LinkValues ==
    LinkPathValues
        \cup {LVal(k, "", <<>>) : k \in {"string", "number", "boolean", "map"}}
        \cup {LVal("array", "", es) : es \in SeqsUpTo(LinkElemValues, MaxLinkElems)}

\* fmt.Sprintf("%s-%d", resname, i)
DecimalDigits == <<"0", "1", "2", "3", "4", "5", "6", "7", "8", "9">>
ElemName(resname, i) == resname \o "-" \o DecimalDigits[i + 1]

\* The names the projection can touch, and what is at a name: nothing, a
\* regular file, or a symbolic link left by an earlier run.
LinkNames == {"result"} \cup {ElemName("result", i) : i \in 0..(MaxLinkElems - 1)}
NoEntry == [t |-> "none", to |-> ""]
Symlink(to) == [t |-> "symlink", to |-> to]
DirEntries == {NoEntry, [t |-> "file", to |-> ""], Symlink("/store/old")}

\* A projection that replaces whatever is at the name.
PathLink_Clobber(fs, resname, to) ==
    IF resname = "" THEN [err |-> "", fs |-> fs]
    ELSE [err |-> "", fs |-> [fs EXCEPT ![resname] = Symlink(to)]]
\* PathExpr.Link: nothing for the empty name; an entry that is no symbolic link
\* is an error; else the name is removed and linked to the path: [err, fs].
PathLink(fs, resname, to) ==
    IF resname = "" THEN [err |-> "", fs |-> fs]
    ELSE IF fs[resname].t # "none" /\ fs[resname].t # "symlink"
    THEN [err |-> "unable to make symlink: exist", fs |-> fs]
    ELSE [err |-> "", fs |-> [fs EXCEPT ![resname] = Symlink(to)]]

\* Value.Link of a value that is no array: PathExpr.Link for a path; StringValue,
\* NumberExpr, BooleanExpr and MapValue return an error whatever the name is.
ValueLink(val, fs, resname) ==
    IF val.kind = "path" THEN PathLink(fs, resname, val.name)
    ELSE [err |-> "unable to symlink object of type " \o val.kind, fs |-> fs]

\* errors.Join(errs...): the non-nil errors ("" stands for nil).
JoinLinkErrors(errs) == {errs[k] : k \in {j \in 1..Len(errs) : errs[j] # ""}}

\* What a Link call adds to the history: the PathExpr.Link calls with a name.
Linked(val, resname, r) ==
    IF val.kind = "path" /\ resname # ""
    THEN <<[name |-> resname, to |-> val.name, err |-> r.err]>> ELSE <<>>

LinkInit ==
    /\ MatOff
    /\ PoolOff
    /\ MapOff
    /\ HashOff
    /\ ParOff
    /\ ScopeOff
    /\ OutOff
    /\ TreeOff
    /\ RingOff
    /\ lVal \in LinkValues
    /\ lJson \in BOOLEAN
    /\ lNoResult \in BOOLEAN
    /\ lResultName = "result"
    /\ lFs0 \in [LinkNames -> DirEntries]
    /\ lFs = lFs0
    /\ lPc = "flags"
    /\ lNext = 0
    /\ lErrs = <<>>
    /\ lLinked = <<>>
    /\ lExit = -1

\* main after flag.Parse: --json implies --no-result, which empties the name.
LFlags ==
    /\ lPc = "flags"
    /\ lNoResult' = (lJson \/ lNoResult)
    /\ lResultName' = IF lJson \/ lNoResult THEN "" ELSE lResultName
    /\ lPc' = "project"
    /\ UNCHANGED <<lVal, lJson, lFs0, lFs, lNext, lErrs, lLinked, lExit>>
    /\ UNCHANGED notLinkVars

\* main's last statement: the value is printed as JSON, or res.Link(resultName)
\* is called; ArrayValue.Link enters its loop only for a non-empty name.
LProject ==
    /\ lPc = "project"
    /\ IF lJson
       THEN /\ lExit' = 0 /\ lPc' = "done"
            /\ UNCHANGED <<lFs, lNext, lErrs, lLinked>>
       ELSE IF lVal.kind = "array"
       THEN /\ lPc' = IF lResultName # "" THEN "elems" ELSE "exit"
            /\ UNCHANGED <<lFs, lNext, lErrs, lLinked, lExit>>
       ELSE LET r == ValueLink(lVal, lFs, lResultName)
            IN  /\ lFs' = r.fs
                /\ lErrs' = <<r.err>>
                /\ lLinked' = lLinked \o Linked(lVal, lResultName, r)
                /\ lPc' = "exit"
                /\ UNCHANGED <<lNext, lExit>>
    /\ UNCHANGED <<lVal, lJson, lNoResult, lResultName, lFs0>>
    /\ UNCHANGED notLinkVars

\* ArrayValue.Link, one iteration: "errs = append(errs,
\* r.Link(fmt.Sprintf("%s-%d", resname, i)))", and the end of the loop.
LElem ==
    /\ lPc = "elems"
    /\ IF lNext < Len(lVal.elems)
       THEN LET e == lVal.elems[lNext + 1]
                r == ValueLink(e, lFs, ElemName(lResultName, lNext))
            IN  /\ lFs' = r.fs
                /\ lErrs' = Append(lErrs, r.err)
                /\ lLinked' = lLinked \o Linked(e, ElemName(lResultName, lNext), r)
                /\ lNext' = lNext + 1
                /\ UNCHANGED lPc
       ELSE /\ lPc' = "exit"
            /\ UNCHANGED <<lFs, lErrs, lLinked, lNext>>
    /\ UNCHANGED <<lVal, lJson, lNoResult, lResultName, lFs0, lExit>>
    /\ UNCHANGED notLinkVars

\* "else if err := res.Link(resultName); err != nil { fmt.Println(err);
\* os.Exit(1) }", else main returns.
LExit ==
    /\ lPc = "exit"
    /\ lExit' = IF JoinLinkErrors(lErrs) # {} THEN 1 ELSE 0
    /\ lPc' = "done"
    /\ UNCHANGED <<lVal, lJson, lNoResult, lResultName, lFs0, lFs, lNext, lErrs, lLinked>>
    /\ UNCHANGED notLinkVars

LinkNext ==
    \/ LFlags
    \/ LProject
    \/ LElem
    \/ LExit

SpecLink == LinkInit /\ [][LinkNext]_vars

(* ---------------- Evaluator.resolve, storing in place ------------------ *)

\* Largest number of elements of the array.
MaxTreeElems == 2

\* The references to x: two entries whose value is "@x", of one object (y is
\* the same for both) or of two objects that define y differently.
Siblings == {1, 2}
\* An element of the array: a reference to y, or a string without one.
TreeElems == {"@y", "lit"}
TreeArrays == SeqsUpTo(TreeElems, MaxTreeElems) \ {<<>>}
TreeValues == {"1", "2"}

\* A resolve that leaves the element as the parser built it.
StoreResolved_Fresh(arr, i, val) == arr
\* "ast[i] = val" (eval.go), "ast[i], err = resolve(elem, scope)" (part_011):
\* the result is stored over the element it came from.
StoreResolved(arr, i, val) == [arr EXCEPT ![i] = val]

\* Evaluator.interpolate on an element: "@y" is looked up in the scope and the
\* string found is resolved in turn (to itself); any other string is itself.
Interpolate(str, y) == IF str = "@y" THEN y ELSE str

\* Evaluator.resolve of a copy of the array as parsed, in the scope of
\* reference s: what the reference is expected to give.
FreshResult(s) == [i \in 1..Len(tArr0) |-> Interpolate(tArr0[i], tY[s])]

TreeInit ==
    /\ MatOff
    /\ PoolOff
    /\ MapOff
    /\ HashOff
    /\ ParOff
    /\ ScopeOff
    /\ OutOff
    /\ LinkOff
    /\ RingOff
    /\ tArr0 \in TreeArrays
    /\ tArr = tArr0
    /\ tY \in [Siblings -> TreeValues]
    /\ tSerial \in BOOLEAN
    /\ tElem = [s \in Siblings |-> <<>>]
    /\ tWritten = [s \in Siblings |-> {}]
    /\ tDone = [s \in Siblings |-> FALSE]

\* Reference s is scheduled: the enclosing loop is serial (one reference after
\* the other) or has started a goroutine for each.
TRuns(s) ==
    /\ tArr0 # <<>>
    /\ ~tDone[s]
    /\ tSerial => \A r \in Siblings : r < s => tDone[r]

\* "for i, elem := range ast": the loop of reference s reads the next element;
\* in serial mode the element before it has been resolved and stored.
TRange(s) ==
    /\ TRuns(s)
    /\ Len(tElem[s]) < Len(tArr)
    /\ tSerial => tWritten[s] = 1..Len(tElem[s])
    /\ tElem' = [tElem EXCEPT ![s] = Append(@, tArr[Len(tElem[s]) + 1])]
    /\ UNCHANGED <<tArr0, tArr, tY, tSerial, tWritten, tDone>>
    /\ UNCHANGED notTreeVars

\* "val, err := ev.resolve(elem, scope); mu.Lock(); ast[i] = val; ...": the
\* element read at i is resolved and the result stored at i (mu belongs to
\* this call of resolve, so it orders nothing between two references).
TStore(s, i) ==
    /\ TRuns(s)
    /\ i \in 1..Len(tElem[s])
    /\ i \notin tWritten[s]
    /\ tArr' = StoreResolved(tArr, i, Interpolate(tElem[s][i], tY[s]))
    /\ tWritten' = [tWritten EXCEPT ![s] = @ \cup {i}]
    /\ UNCHANGED <<tArr0, tY, tSerial, tElem, tDone>>
    /\ UNCHANGED notTreeVars

\* "wg.Wait()" and "return ast, nil": the reference's value is the array.
TReturn(s) ==
    /\ TRuns(s)
    /\ tWritten[s] = 1..Len(tArr)
    /\ tDone' = [tDone EXCEPT ![s] = TRUE]
    /\ UNCHANGED <<tArr0, tArr, tY, tSerial, tElem, tWritten>>
    /\ UNCHANGED notTreeVars

TreeNext ==
    \/ \E s \in Siblings : TRange(s)
    \/ \E s \in Siblings, i \in 1..MaxTreeElems : TStore(s, i)
    \/ \E s \in Siblings : TReturn(s)

SpecTree == TreeInit /\ [][TreeNext]_vars

(* --------------------------- the ring buffer -------------------------- *)

\* Largest capacity of the buffer (len(Content)), largest number of bytes one
\* Write is handed, and largest number of bytes written in all.
MaxCap == 3
MaxChunk == 2
MaxWritten == 4

\* The bytes a script writes (Content starts as zeros: make([]byte, n)).
RingBytes == {1, 2}
Ring(content, index, size) == [Content |-> content, Index |-> index, Size |-> size]

\* RingBuffer.Write: for every byte of p, "b.Content[b.Index] = chr; b.Index =
\* (b.Index + 1) % len(b.Content); b.Size = min(b.Size+1, len(b.Content))".
RECURSIVE RingWrite(_, _)
RingWrite(b, p) ==
    IF p = <<>> THEN b
    ELSE RingWrite(Ring([b.Content EXCEPT ![b.Index + 1] = Head(p)],
                        (b.Index + 1) % Len(b.Content),
                        IF b.Size + 1 < Len(b.Content) THEN b.Size + 1 ELSE Len(b.Content)),
                   Tail(p))

\* RingBuffer.Get: "result[i] = b.Content[(i+b.Index)%len(b.Content)]" for i
\* from 0 below b.Size.
RingGet(b) == [i \in 1..b.Size |-> b.Content[((i - 1 + b.Index) % Len(b.Content)) + 1]]

\* The last k elements of a sequence.
LastBytes(w, k) == SubSeq(w, Len(w) - k + 1, Len(w))

RingInit ==
    /\ MatOff
    /\ PoolOff
    /\ MapOff
    /\ HashOff
    /\ ParOff
    /\ ScopeOff
    /\ OutOff
    /\ LinkOff
    /\ TreeOff
    /\ \E c \in 1..MaxCap : rContent = [i \in 1..c |-> 0]
    /\ rIndex = 0
    /\ rSize = 0
    /\ rWritten = <<>>
    /\ rGot = [done |-> FALSE, bytes |-> <<>>, after |-> 0]

\* The script's output reaches the buffer: one Write call.
RWrite ==
    /\ rContent # <<>>
    /\ \E p \in SeqsUpTo(RingBytes, MaxChunk) \ {<<>>} :
          /\ Len(rWritten) + Len(p) <= MaxWritten
          /\ LET b == RingWrite(Ring(rContent, rIndex, rSize), p)
             IN  /\ rContent' = b.Content
                 /\ rIndex' = b.Index
                 /\ rSize' = b.Size
          /\ rWritten' = rWritten \o p
    /\ UNCHANGED rGot
    /\ UNCHANGED notRingVars

\* "string(logbuf.Get())", when the build has failed.
RGet ==
    /\ rContent # <<>>
    /\ rGot' = [done |-> TRUE, bytes |-> RingGet(Ring(rContent, rIndex, rSize)),
                after |-> Len(rWritten)]
    /\ UNCHANGED <<rContent, rIndex, rSize, rWritten>>
    /\ UNCHANGED notRingVars

RingNext == RWrite \/ RGet

SpecRing == RingInit /\ [][RingNext]_vars

(* ------------------------------- claims ------------------------------- *)

\* C1 (as claimed): in parallel mode, without force, a fingerprint that had no
\* store entry when the run started has its script executed at most once,
\* however many sub-reductions resolve it.
C1_AtMostOnce ==
    (~Serial /\ ~Force) => \A f \in Fingerprints : f \notin store0 => runs[f] <= 1

\* C2 (as claimed): a store entry exists only for a fingerprint a build of which
\* has completed successfully.
C2_StoreAtomicity == \A f \in store : f \in sealed

\* C3 (as claimed): when Resolve returns an error from a step after the cache
\* probe, no store entry exists at its candidate path at that moment.
C3_NoEntryOnError == \A i \in Elems : result[i] = "error" => ~atReturn[i]

\* C4 (as claimed): whatever the worker count, the nesting depth and the fan-out,
\* no reachable state of the pool has every worker blocked.
C4_PoolNeverStarves == numWorkers >= 1 => ~PoolStarved

\* C5 (as claimed): a finished run fails if and only if the serial resolution of
\* the same expression against the same store fails (the values, when both
\* succeed, are the candidate paths of the same forms).
C5_ModeInvariance ==
    phase \in {"failed", "swept", "exit"} => (Failed <=> SerialFailed)

\* C6 (as claimed): in the resolved map every key set by an explicit entry holds
\* the explicit entry's value, and every other key holds a value of a with
\* clause that has it (and is absent when no clause has it).
C6_ExplicitEntriesWin ==
    mphase = "done" =>
        \A k \in Keys :
            IF k \in ExplicitKeys
            THEN k \in DOMAIN mres /\ mres[k] = ExplicitValue(k)
            ELSE IF ClausesWith(k) = {}
                 THEN k \notin DOMAIN mres
                 ELSE /\ k \in DOMAIN mres
                      /\ \E j \in ClausesWith(k) : mres[k] = mExtends[j].values[k]

\* C7 (as claimed): a key that no explicit entry sets holds the value of the
\* first with clause, in textual order, that has it.
C7_FirstWithWins ==
    mphase = "done" =>
        \A k \in (DOMAIN mres) \ ExplicitKeys :
            /\ ClausesWith(k) # {}
            /\ mres[k] = mExtends[FirstClauseWith(k)].values[k]

\* C8: a probe that finds the entry, force being false, returns the path at
\* once, runs no script and leaves the store as it is; and in a run without
\* force that starts with an entry for every output, no step runs a script and
\* no step of the resolution changes the store.
C8_CacheHitFrame ==
    [][ /\ \A i \in Elems :
             (pc[i] = "probe" /\ pc'[i] # "probe" /\ exprs[i] \in store /\ ~Force) =>
                 /\ pc'[i] = "done"
                 /\ result'[i] = "hit"
                 /\ store' = store
                 /\ runs' = runs
        /\ (~Force /\ phase = "resolve" /\ {exprs[i] : i \in Elems} \subseteq store0) =>
                 /\ runs' = runs
                 /\ \A f \in Fingerprints : runs[f] = 0
                 /\ (phase' = "resolve" => store' = store)
      ]_vars

\* C8 witness: a finished run without force and dry-run in which an output whose
\* entry was in the store resolved by the probe and no script ran.
C8_Witness ==
    /\ phase = "exit"
    /\ ~Force /\ ~DryRun
    /\ \E i \in Elems : exprs[i] \in store0 /\ result[i] = "hit"
    /\ \A f \in Fingerprints : runs[f] = 0

\* C9: with force true and dry-run false no resolution returns from the probe:
\* every one goes on to remove the entry at its candidate path, and each path
\* returned was preceded by a run of the script of its own.
C9_ForceRebuilds ==
    [][ (Force /\ ~DryRun /\ phase = "resolve") =>
          /\ \A i \in Elems :
               /\ (pc[i] = "probe" /\ pc'[i] # "probe") => pc'[i] = "remove"
               /\ (pc[i] = "remove" /\ pc'[i] # "remove") => exprs[i] \notin store'
               /\ result'[i] # "hit"
          /\ \A f \in Fingerprints :
               runs'[f] >= Cardinality({i \in Elems : exprs[i] = f /\ result'[i] = "built"})
      ]_vars

\* C9 witness: under force an output whose entry was in the store was built again.
C9_Witness ==
    /\ Force /\ ~DryRun
    /\ \E i \in Elems : exprs[i] \in store0 /\ result[i] = "built" /\ runs[exprs[i]] >= 1

\* C10 (as claimed): with --dry no script is executed, the store stays what it
\* was when the run started, and every output resolves to its candidate path.
C10_DryRunNoEffect ==
    DryRun =>
        /\ \A f \in Fingerprints : runs[f] = 0
        /\ store = store0
        /\ \A i \in Elems : pc[i] = "done" => result[i] = "hit"

\* C11 (as claimed): a map expression and the same map with its entries in
\* another textual order feed the same byte stream to the hash.
C11_KeyOrderIrrelevant ==
    (hExpr # <<>> /\ hSums # <<>> /\ hPermSum # "" /\ DistinctKeys(hExpr)) =>
        hPermSum = hSums[1]

\* C12 (as claimed): two computations of the fingerprint of one pure expression
\* emit the same byte stream.
C12_FingerprintReproducible ==
    \A i, j \in 1..Len(hSums) : hSums[i] = hSums[j]

\* C14: the values parallelResolve returns hold at every index i what the i-th
\* element's Resolve returned, and so each key (odd index) is followed by the
\* value declared next to it, whatever order the goroutines stored them in.
C14_DeclaredOrder ==
    pMain = "done" =>
        /\ Len(pRet.values) = Len(pExprs)
        /\ \A i \in ParElems : pRet.values[i] = pExprs[i].val
        /\ \A k \in 1..(Len(pExprs) \div 2) :
              <<pRet.values[2 * k - 1], pRet.values[2 * k]>> =
                  <<pExprs[2 * k - 1].val, pExprs[2 * k].val>>

\* C14 witness: in a parallel resolve the second element has stored its value
\* while the first, which returns another value, is still about to store its own.
C14_Witness ==
    /\ ~pSerial
    /\ Len(pExprs) >= 2
    /\ pExprs[1].val # pExprs[2].val
    /\ pGo[1] = "write" /\ pGo[2] = "done"
    /\ pValues[2] = pExprs[2].val

\* C15: when parallelResolve returns, every element's sub-reduction has run to
\* its end, and the error returned wraps the error of each element that failed
\* (so the resolve fails as soon as one element fails).
C15_ErrorsJoined ==
    pMain = "done" =>
        /\ \A i \in ParElems : pGo[i] = "done"
        /\ pRet.err = {i \in ParElems : pExprs[i].err}

\* C15 witness: a parallel resolve has returned two errors.
C15_Witness ==
    /\ pMain = "done" /\ ~pSerial
    /\ Cardinality(pRet.err) >= 2

\* C16 (as claimed): the registry names every output whose resolution has gone
\* past its registration step.
C16_NoLostAppend ==
    \A i \in Elems : pc[i] \notin {"idle", "append"} => exprs[i] \in Outputs

\* C17 (as claimed): the sweep of a successful run leaves exactly the entries
\* the registry names, and removes no entry whose path a resolution of this run
\* returned.
C17_SweepKeepsReturned ==
    [][ (phase = "resolve" /\ phase' = "swept") =>
          /\ store' = store \cap Outputs
          /\ \A i \in Elems :
                (result[i] \in {"hit", "built"} /\ exprs[i] \in store) => exprs[i] \in store'
      ]_vars

\* C18: no step of a resolve changes a scope that exists: a Define and a Call
\* with formals write into a clone only, so the scope given to them, and every
\* scope a variable captured, keeps its bindings while other sub-reductions use it.
C18_ScopesImmutable ==
    [][ sProg # <<>> =>
          \A id \in 1..Len(sHeap) : id <= Len(sHeap') /\ sHeap'[id] = sHeap[id] ]_vars

\* C18 witness: the resolve has returned after a Define and a Call with formals
\* each extended a scope, the call inside a sub-reduction of an array.
C18_Witness ==
    /\ SDone
    /\ sTh[0].val.kind = "array"
    /\ \E c \in sCalls : c.bodyScope # c.callScope /\ c.callScope > 1

\* The names a lambda's body refers to that are not its formals.
FreeNames(lambda) ==
    LET body == lambda.subs[1]
        used == IF body.kind = "var" THEN {body.name}
                ELSE {body.subs[k].name : k \in 1..Len(body.subs)}
    IN  used \ {lambda.formals[k] : k \in 1..Len(lambda.formals)}

\* C19 (as claimed): a lambda's body is resolved in a scope that gives each free
\* name of the body the binding it has in the scope the lambda was defined in
\* (and none when it has none there).
C19_LexicalScope ==
    \A c \in sCalls : \A n \in FreeNames(c.lambda) :
        /\ n \in DOMAIN sHeap[c.bodyScope] <=> n \in DOMAIN sHeap[c.defScope]
        /\ n \in DOMAIN sHeap[c.defScope] => sHeap[c.bodyScope][n] = sHeap[c.defScope][n]

\* C20: a call binds each formal, in the body's scope, to its argument
\* expression together with the caller's scope; and every reference to a formal
\* goes on to resolve that expression in that scope (so once per use).
C20_CallByName ==
    [][ sProg # <<>> =>
          /\ \A c \in sCalls' : \A i \in 1..Len(c.lambda.formals) :
                sHeap'[c.bodyScope][c.lambda.formals[i]] =
                    Variable(c.call.subs[i + 1], c.callScope)
          /\ \A t \in SThreads :
                (/\ sTh[t].st = "eval" /\ sTh[t].expr.kind = "var"
                 /\ sTh'[t] # sTh[t]
                 /\ sTh[t].expr.name \in DOMAIN sHeap[sTh[t].scope]
                 /\ sHeap[sTh[t].scope][sTh[t].expr.name] \in FormalBindings) =>
                    LET b == sHeap[sTh[t].scope][sTh[t].expr.name]
                    IN  /\ sTh'[t].st = "eval"
                        /\ sTh'[t].expr = b.expr
                        /\ sTh'[t].scope = b.scope
                        /\ \E c \in sCalls : b.scope = c.callScope
                        /\ sUses' = sUses + 1
      ]_vars

\* C20 witness: the resolve has returned numbers after formals were referred to
\* twice, in a call whose argument is a variable of the caller's scope with the
\* name of the formal itself.
C20_Witness ==
    /\ SDone
    /\ sUses >= 2
    /\ sTh[0].val.kind = "array"
    /\ \A k \in 1..ArrayLen : sTh[0].val.subs[k].kind = "number"
    /\ \E c \in sCalls :
          /\ Len(c.lambda.formals) = 1
          /\ c.call.subs[2].kind = "var"
          /\ c.call.subs[2].name = c.lambda.formals[1]

\* C21: a call whose number of arguments differs from the lambda's number of
\* formals returns the arity error at once: no scope is made, no call is
\* recorded, no formal is used, and neither the body nor an argument is handed
\* to Resolve; a reference to a name the scope does not bind returns the
\* not-in-scope error.
C21_ArityAndScopeErrors ==
    [][ sProg # <<>> =>
          \A t \in SThreads :
             /\ (/\ sTh[t].st = "ret" /\ sTh[t].stack # <<>>
                 /\ sTh'[t] # sTh[t]
                 /\ sTh[t].stack[Len(sTh[t].stack)].expr.kind = "call"
                 /\ sTh[t].val.kind = "fn"
                 /\ Len(sTh[t].val.formals) #
                        Len(sTh[t].stack[Len(sTh[t].stack)].expr.subs) - 1) =>
                    /\ sTh'[t].st = "ret"
                    /\ sTh'[t].val = XError("arguments")
                    /\ Len(sTh'[t].stack) = Len(sTh[t].stack) - 1
                    /\ sHeap' = sHeap /\ sCalls' = sCalls /\ sUses' = sUses
             /\ (/\ sTh[t].st = "eval" /\ sTh[t].expr.kind = "var"
                 /\ sTh'[t] # sTh[t]
                 /\ sTh[t].expr.name \notin DOMAIN sHeap[sTh[t].scope]) =>
                    /\ sTh'[t].st = "ret"
                    /\ sTh'[t].val = XError("not in scope")
                    /\ sHeap' = sHeap /\ sCalls' = sCalls
      ]_vars

\* C21 witness: the resolve of an array has returned after one element failed
\* with the arity error (a lambda without formals called with an argument) and
\* another with the not-in-scope error, and no call bound anything.
C21_Witness ==
    /\ SDone
    /\ sTh[1].val = XError("arguments")
    /\ sTh[2].val = XError("not in scope")
    /\ sCalls = {}
    /\ Len(sHeap) = 2

SiblingDefine(prog) ==
    IF prog \in SiblingDefines THEN prog ELSE prog.subs[Len(prog.subs)]
InnerRefs(d) ==
    {n \in {d.formals[k] : k \in 1..Len(d.formals)} :
        \E k \in 1..Len(d.formals) :
            \/ d.subs[k] = XVar(n)
            \/ d.subs[k].kind = "fn" /\ d.subs[k].subs[1] = XVar(n)}
SiblingBound(d, n) == {d.subs[k] : k \in {j \in 1..Len(d.formals) : d.formals[j] = n}}

\* C23 (as claimed): a reference inside an expression bound by a Define never
\* resolves to a binding of that Define: the name is not in scope there, or it
\* has the binding of an outer Define.  (In these programs the names of
\* InnerRefs are referred to inside bound expressions only.)
C23_BindingsSeeOuterScope ==
    sProg \in SiblingPrograms =>
        LET d == SiblingDefine(sProg)
        IN  \A t \in SThreads :
               (/\ sTh[t].st = "eval" /\ sTh[t].expr.kind = "var"
                /\ sTh[t].expr.name \in InnerRefs(d)
                /\ sTh[t].expr.name \in DOMAIN sHeap[sTh[t].scope]) =>
                   sHeap[sTh[t].scope][sTh[t].expr.name].expr
                       \notin SiblingBound(d, sTh[t].expr.name)

\* The condition a program of CondPrograms resolves, and whether the scope of
\* that program gives its predicate a truth value: "true" | "false" | "error".
CondOf(prog) == IF prog.kind = "cond" THEN prog ELSE prog.subs[Len(prog.subs)]
CondTruth(prog) ==
    LET test == CondOf(prog).subs[1]
    IN  IF test.kind = "number" THEN BooleanOf(test)
        ELSE IF prog.kind = "cond" THEN "error"
        ELSE BooleanOf(prog.subs[1])

\* C24: a Condition hands its predicate to Resolve first and then exactly one
\* branch, the one the predicate's truth value chooses: the other branch is
\* never handed to Resolve, its output form is never materialized and its
\* error never is the value; when the predicate has no truth value or fails,
\* neither branch is resolved.
C24_OneBranchOnly ==
    sProg \in CondPrograms =>
        LET c == CondOf(sProg)
            truth == CondTruth(sProg)
            chosen == IF truth = "true" THEN {c.subs[2]}
                      ELSE IF truth = "false" THEN {c.subs[3]} ELSE {}
            others == {c.subs[2], c.subs[3]} \ chosen
        IN  /\ \A e \in others :
                 /\ sTh[0].expr # e
                 /\ e.kind = "output" => e.name \notin sBuilt
                 /\ e.kind = "var" /\ chosen # {} => sTh[0].val # XError("not in scope")
            /\ \A e \in {c.subs[2], c.subs[3]} :
                 sTh[0].expr = e /\ sTh[0].st = "eval" =>
                     sTh[0].stack = <<>> /\ sTh[0].val = XNone
            /\ SDone =>
                 /\ \A e \in chosen :
                      /\ e.kind = "output" => sBuilt = {e.name} /\ sTh[0].val = XPath(e.name)
                      /\ e.kind = "var" => sBuilt = {} /\ sTh[0].val = XError("not in scope")
                 /\ chosen = {} => sBuilt = {} /\ sTh[0].val.kind = "error"

\* C24 witness: a condition whose predicate is a variable bound to 0 has
\* returned the path of the output form of its else branch, the only one
\* materialized, while the other branch holds a reference to an unbound name.
C24_Witness ==
    /\ SDone
    /\ sProg \in CondPrograms
    /\ CondOf(sProg).subs[1] = XVar("x")
    /\ CondOf(sProg).subs[2] = XVar("z")
    /\ sTh[0].val = XPath("q")
    /\ sBuilt = {"q"}

\* C26 (as claimed): once an include of a file whose top-level expression is a
\* Define has been resolved, the names that Define binds are in scope for the
\* expression that holds the include: in serial mode, where the elements of an
\* array are resolved in order, a reference to x after "include lib" does not
\* fail with not-in-scope.
C26_IncludedBindingsVisible ==
    (/\ sProg \in IncludeConsumers
     /\ sSerial
     /\ sTh[1].st = "done" /\ sTh[1].val = XNum("2")) =>
        \A t \in SElemThreads : sTh[t].val # XError("not in scope")

\* C25 (as claimed): the fingerprint of an attribute set that contains a
\* condition is the same after the branch the condition does not choose has
\* been replaced by a different expression.
C25_UnchosenNotFingerprinted ==
    (hExpr \in HashCondMaps /\ hSums # <<>> /\ hAltSum # "") => hAltSum = hSums[1]

\* C27 (as claimed): an output form without a name attribute is materialized
\* under the lowercase hex fingerprint alone, and the missing name is no error;
\* with a name that is a string the store name is <hex>-<name>.
C27_NameOptional ==
    (oPc = "done" /\ oAttrs # <<>>) =>
        /\ oAttrs["name"].t = "absent" =>
              oRet # "name has no attribute" /\ oHashstr = Hex(Hashsum)
        /\ oAttrs["name"].t = "string" =>
              oHashstr = Hex(Hashsum) \o "-" \o oAttrs["name"].v[1]

C29_ArgsAppended ==
    (/\ oAttrs # <<>>
     /\ oAttrs["args"].t = "array"
     /\ \A k \in 1..Len(oAttrs["args"].v) : oAttrs["args"].v[k] \in ArgStrings
     /\ oDefers # <<>>
     /\ SelectScript(oAttrs).err = ""
     /\ oPc \notin {"select", "args"}) =>
        /\ oRet # "panic"
        /\ oCmdline = SelectScript(oAttrs).cmdline \o
               [k \in 1..(IF Len(oAttrs["args"].v) = 0 THEN 0 ELSE Len(oAttrs["args"].v) - 1) |->
                   oAttrs["args"].v[k + 1]]

C31_NoEvalSkips ==
    oNoEval =>
        /\ oRan = <<>>
        /\ oDefers = <<>>
        /\ oRet # "path"
        /\ oPc \notin {"select", "args", "builddir", "environ", "run"}

\* C32: PathExpr.Link on a name where an entry that is no symbolic link exists
\* fails with the refusing error and leaves the entry as it was; on a name
\* where a symbolic link exists it replaces the link; on a free name it creates
\* the link.
C32_LinkRefusesToClobber ==
    \A k \in 1..Len(lLinked) :
        LET l == lLinked[k]
        IN  IF lFs0[l.name].t = "file"
            THEN /\ l.err = "unable to make symlink: exist"
                 /\ lFs[l.name] = lFs0[l.name]
                 /\ lPc = "done" => lExit = 1
            ELSE /\ l.err = ""
                 /\ lFs[l.name] = Symlink(l.to)
\* C32 happens: an array of two paths was projected, its first element onto a
\* regular file (refused, the file is still there) and its second onto an old
\* symbolic link (replaced); the run failed.
C32_Witness ==
    /\ lPc = "done"
    /\ Len(lLinked) = 2
    /\ lFs0["result-0"].t = "file" /\ lFs["result-0"].t = "file"
    /\ lFs0["result-1"] = Symlink("/store/old")
    /\ lFs["result-1"] = Symlink(lVal.elems[2].name)
    /\ lExit = 1

\* C33: with --no-result (the result name is empty) the projection is
\* skipped: no entry changes and no error is reported, whatever the final
\* value is (path, array, map, string, number, boolean).
C33_NoResultSkips ==
    (lPc = "done" /\ lResultName = "") => (lExit = 0 /\ lFs = lFs0)

\* C34: resolving does not write the expression tree: the array a variable is
\* bound to stays as the parser built it, and each reference to the variable,
\* resolved one after the other or concurrently, gets what resolving a fresh
\* copy of the array in its scope gives.
C34_TreeNotMutated ==
    /\ tArr = tArr0
    /\ \A s \in Siblings : tDone[s] => tArr = FreshResult(s)

\* C35: two different arrays never write the same byte stream: the stream of
\* an array carries its length before its elements, so that [["a"], "b"] and
\* [["a", "b"]] are told apart.
C35_ArraysToldApart ==
    (hExpr \in HashArrays /\ hSums # <<>> /\ hAltSum # "" /\ hAlt # hExpr)
        => hAltSum # hSums[1]

\* C37: the same attribute expression, referring to a variable that two scopes
\* bind to different expressions, writes different byte streams.
C37_BindingFingerprinted ==
    (/\ hExpr \in HashMaps /\ RefersTo(hExpr, "x") /\ hScopes[1] # hScopes[2]
     /\ hAlt = hExpr /\ hSums # <<>> /\ hAltSum # "")
        => hAltSum # hSums[1]

\* C36: once a resolution has returned the store path of an output in a run
\* that is not a dry run, no materialization step of the same run removes the
\* entry at that path again.
C36_ReturnedEntryKept ==
    [][\A i \in Elems :
          (/\ ~DryRun
           /\ result[i] \in {"hit", "built"}
           /\ exprs[i] \in store
           /\ phase' = "resolve")
              => exprs[i] \in store']_vars

\* C38: the candidate path of an output form is a direct child of the cache
\* directory whatever its name is, so the removals of the resolution (before
\* the build and in the deferred cleanup) touch nothing outside the store and
\* no entry under another store name.
C38_OutdirInsideStore ==
    oDefers # <<>> =>
        LET outdir == Outdir(Hashsum, oAttrs["name"].v[1])
        IN  /\ Len(outdir) = Len(CacheDir) + 1
            /\ SubSeq(outdir, 1, Len(CacheDir)) = CacheDir
            /\ outdir[Len(outdir)] = oHashstr

\* C39: in serial mode the resolution of a program of references, calls and
\* defines (no include, no output form) comes to an end with a value or an
\* error: it never exhausts the stack, and a lambda bound by "let f = fn ..."
\* does not reach its own binding through its body.
C39_CallsTerminate ==
    (sProg # <<>> /\ sSerial /\ sProg \notin CondPrograms \cup IncludePrograms)
        => \A t \in SThreads : sTh[t].st # "overflow"

\* C40: after any sequence of Write calls on a RingBuffer of capacity c, Get
\* returns the last min(n, c) bytes written, in the order they were written,
\* n being the number of bytes written in all (also when n < c).
C40_GetReturnsTail ==
    (rContent # <<>> /\ rGot.done) =>
        LET n == rGot.after
            c == Len(rContent)
        IN  rGot.bytes = LastBytes(SubSeq(rWritten, 1, n), IF n < c THEN n ELSE c)
====
